---- MODULE Spec2Model ----
(***************************************************************************)
(* Model of the order-service message consumer                             *)
(* (backend/internal/broker/kafka/consumer.go) together with the part of   *)
(* the order service it drives (backend/internal/service/order.go).        *)
(*                                                                         *)
(* The consume loop is one goroutine; its position is pc.  The kafka-go    *)
(* group Reader is modelled by the two offsets it keeps: position (the     *)
(* next offset FetchMessage hands out, advanced by every successful        *)
(* fetch whether or not the message is committed) and committed (the       *)
(* group offset, set by CommitMessages to the message's offset + 1).       *)
(* events is a history variable: the trace of what the loop has done.      *)
(***************************************************************************)
EXTENDS Integers, Sequences, FiniteSets, TLC

\* ---------------------------------------------------------------- bounds
LogLen == 2
MaxRetriesCfg == 2
MaxFetchErrors == 1
FirstOffset == 9
PartitionId == 0

\* ------------------------------------------------------- texts and errors
\* An error is the sequence of the pieces of its text; nil is the empty one.
NoErr == << >>

Digits == <<"0", "1", "2", "3", "4", "5", "6", "7", "8", "9">>

RECURSIVE FormatInt(_)
\* fmt.Sprintf("%d", n) for n >= 0: the decimal digits of n
FormatInt(n) ==
    IF n < 10 THEN << Digits[n + 1] >>
    ELSE FormatInt(n \div 10) \o << Digits[(n % 10) + 1] >>

\* strings.Contains(s, t) on piece sequences
Contains(s, t) ==
    \E i \in 1..(Len(s) - Len(t) + 1) : SubSeq(s, i, i + Len(t) - 1) = t

\* fmt.Errorf(prefix + ": %w", err)
Wrap(prefix, err) == << prefix >> \o err

ErrJSONSyntax == << "invalid character" >>
ErrValidation == << "order_uid: ", "required field" >>
ErrDBUnavailable == << "failed to begin transaction: ", "db unavailable" >>
ErrDuplicateKey == << "failed to create order: ", "duplicate key" >>
ErrCtxCanceled == << "context canceled" >>
ErrKafkaWrite == << "kafka write failed" >>

\* ------------------------------------------------------------ the orders
SourceTopic == "orders"

OrderValid == [OrderUID |-> "O1", valid |-> TRUE]
OrderInvalid == [OrderUID |-> "", valid |-> FALSE]

\* json.Marshal(order): the message body of an order
Marshal(order) ==
    << "{", order.OrderUID, IF order.valid THEN "true" ELSE "false", "}" >>

Garbage == << "not json" >>

\* json.Unmarshal(value, &order): the order and the error
Unmarshal(value) ==
    IF Len(value) = 4 /\ value[1] = "{" /\ value[4] = "}"
    THEN [order |-> [OrderUID |-> value[2], valid |-> (value[3] = "true")],
          err |-> NoErr]
    ELSE [order |-> [OrderUID |-> "", valid |-> FALSE], err |-> ErrJSONSyntax]

Bodies == { Marshal(OrderValid), Marshal(OrderInvalid), Garbage }

KeyOf(value) ==
    IF value = Garbage THEN "k-garbage"
    ELSE IF value = Marshal(OrderValid) THEN "k-valid" ELSE "k-invalid"

\* the kafka.Message at index i (1-based) of a partition with these bodies
MessageAt(bodies, i) ==
    [Topic |-> SourceTopic, Partition |-> PartitionId,
     Offset |-> FirstOffset + i - 1, Key |-> KeyOf(bodies[i]), Value |-> bodies[i]]

NoMsg == [Topic |-> "", Partition |-> 0 - 1, Offset |-> 0 - 1, Key |-> "", Value |-> << >>]

VARIABLES
    cfg,            \* Config: maxRetries, dlq (DLQTopic # "")
    log,            \* the bodies of the source partition, in offset order
    position,       \* Reader: index in log of the next message to fetch
    committed,      \* Reader: committed group offset (offset of next message to read)
    pc,             \* where consumeMessages is
    msg,            \* the message of the running fetch cycle
    order,          \* the decoded order of the running fetch cycle
    attempt,        \* processOrderWithRetry: attempt
    lastErr,        \* processOrderWithRetry: lastErr
    processingErr,  \* consumeMessages: processingErr
    cancelled,      \* ctx.Done() of the context passed to Start is closed
    fetchErrs,      \* number of failed fetches so far
    dlqTopic,       \* the records of the dead-letter topic
    repo,           \* OrderUIDs in the orders table
    cache,          \* OrderUIDs in the cache
    events,         \* history: what the loop did, in order
    cancelAt,       \* the backoff wait (length of events) ctx was cancelled in, if any
    stop,           \* Consumer.Stop: its position, its context, what it closed
    bk,             \* calculateBackoff: a configuration and the delays computed for it
    svc,            \* OrderService with its repository and cache, called directly
    app,            \* App: where Run is, and its last Health and GET /order calls
    val,            \* Validate: the value under validation and the errors reported
    db              \* OrderRepository: the tables, a Create in progress, a GetByUID in progress

vars == << cfg, log, position, committed, pc, msg, order, attempt, lastErr,
           processingErr, cancelled, fetchErrs, dlqTopic, repo, cache, events,
           cancelAt, stop, bk, svc, app, val, db >>

\* the variables of the consumer and of Stop
loopVars == << cfg, log, position, committed, pc, msg, order, attempt, lastErr,
               processingErr, cancelled, fetchErrs, dlqTopic, repo, cache, events,
               cancelAt, stop >>

\* no configuration under computation, no service under test
BkIdle == [initial |-> 0, factor |-> [num |-> 1, den |-> 1], max |-> 0, delays |-> << >>]

SvcIdle == [pc |-> "idle"]

AppIdle == [pc |-> "idle"]

ValIdle == [pc |-> "idle"]

DbIdle == [pc |-> "idle"]

NotCancelled == [pc |-> "none", n |-> 0]

StopIdle == [pc |-> "idle", ctx |-> "none", timedOut |-> FALSE, err |-> NoErr,
             readerClosed |-> FALSE, producerClosed |-> FALSE]

Ev(e, off, ok, err) == [ev |-> e, off |-> off, ok |-> ok, err |-> err]

RECURSIVE SeqsOf(_, _)
SeqsOf(S, n) ==
    IF n = 0 THEN { << >> }
    ELSE { Append(s, x) : s \in SeqsOf(S, n - 1), x \in S }

Init ==
    /\ cfg \in [maxRetries : 0..MaxRetriesCfg, dlq : BOOLEAN]
    /\ log \in SeqsOf(Bodies, LogLen)
    /\ position = 1
    /\ committed = FirstOffset
    /\ pc = "loop"
    /\ msg = NoMsg
    /\ order = OrderInvalid
    /\ attempt = 0
    /\ lastErr = NoErr
    /\ processingErr = NoErr
    /\ cancelled = FALSE
    /\ fetchErrs = 0
    /\ dlqTopic = << >>
    /\ repo = {}
    /\ cache = {}
    /\ events = << >>
    /\ cancelAt = NotCancelled
    /\ stop = StopIdle
    /\ bk = BkIdle
    /\ svc = SvcIdle
    /\ app = AppIdle
    /\ val = ValIdle
    /\ db = DbIdle

\* ------------------------------------------------------- the order service
\* Order.Validate().HasErrors() is false: the OrderUID is set and the other
\* checks (valid) pass
Validate(o) == o.OrderUID # "" /\ o.valid

\* OrderRepository.Create: the errors it can return for this order and table
CreateErrors(o, table) ==
    IF ~Validate(o) THEN { Wrap("validation failed: ", ErrValidation) }
    ELSE { ErrDBUnavailable }
         \cup (IF o.OrderUID \in table THEN { ErrDuplicateKey } ELSE { })

\* OrderRepository.Create can succeed: a valid order whose key is not taken
CreateCanSucceed(o, table) == Validate(o) /\ o.OrderUID \notin table

\* OrderService.ProcessOrderMessage: every outcome (error, table, cache)
ProcessOrderMessage(o, table, kv) ==
    IF ~Validate(o)
    THEN { [err |-> Wrap("order validation failed: ", ErrValidation),
            repo |-> table, cache |-> kv] }
    ELSE { [err |-> Wrap("failed to save order: ", e), repo |-> table, cache |-> kv] :
               e \in CreateErrors(o, table) }
         \cup (IF CreateCanSucceed(o, table)
               THEN { [err |-> NoErr, repo |-> table \cup { o.OrderUID }, cache |-> c] :
                          c \in { kv, kv \cup { o.OrderUID } } }
               ELSE { })

\* ----------------------------------------------------------- the consumer
\* the for loop runs one attempt too many
retryLoopCond_offByOne(a, maxRetries) == a <= maxRetries + 1

\* processOrderWithRetry: the condition of the for loop
retryLoopCond(a, maxRetries) == a <= maxRetries

\* processOrderWithRetry: a backoff wait follows a failed attempt
shouldWait(a, maxRetries) == a < maxRetries

\* processOrderWithRetry: the error returned once the loop has ended
exhaustedErr(maxRetries, last) ==
    << "failed to process order after " >> \o FormatInt(maxRetries)
        \o << " attempts: " >> \o last

\* consumeMessages: where the loop goes with the result of processMessage
afterProcessMessage(err) == IF err = NoErr THEN "commit" ELSE "failed"

\* the loop commits whatever handleFailedMessage returned
afterHandleFailed_commitAlways(dlqErr) == "commit"

\* the test of the dead-letter error is inverted
afterHandleFailed_inverted(dlqErr) == IF dlqErr = NoErr THEN "loop" ELSE "commit"

\* consumeMessages: where the loop goes with the result of handleFailedMessage
afterHandleFailed(dlqErr) == IF dlqErr # NoErr THEN "loop" ELSE "commit"

\* handleFailedMessage: a dead-letter write is attempted
producerConfigured(c) == c.dlq

\* handleFailedMessage reports the missing producer as an error
noProducerResult_error == << "DLQ producer is not configured" >>

\* handleFailedMessage: what it returns when there is no producer
noProducerResult == NoErr

\* the error of json.Unmarshal is ignored
decodeFailed_ignored(d) == FALSE

\* processMessage: json.Unmarshal reported an error
decodeFailed(d) == d.err # NoErr

\* the offset header is filled from the partition
dlqMsg_partitionAsOffset(m, err) ==
    [Key |-> m.Key,
     Value |-> m.Value,
     Headers |-> << [Key |-> "x-original-topic", Value |-> << m.Topic >>],
                    [Key |-> "x-original-offset", Value |-> FormatInt(m.Partition)],
                    [Key |-> "x-original-partition", Value |-> FormatInt(m.Partition)],
                    [Key |-> "x-failure-reason", Value |-> err],
                    [Key |-> "x-failed-at", Value |-> << "RFC3339 UTC" >>] >>]

\* handleFailedMessage: the dead-letter record
dlqMsg(m, err) ==
    [Key |-> m.Key,
     Value |-> m.Value,
     Headers |-> << [Key |-> "x-original-topic", Value |-> << m.Topic >>],
                    [Key |-> "x-original-offset", Value |-> FormatInt(m.Offset)],
                    [Key |-> "x-original-partition", Value |-> FormatInt(m.Partition)],
                    [Key |-> "x-failure-reason", Value |-> err],
                    [Key |-> "x-failed-at", Value |-> << "RFC3339 UTC" >>] >>]

\* consumeMessages: the select at the top of the loop takes ctx.Done()
LoopExit ==
    /\ pc = "loop"
    /\ cancelled
    /\ pc' = "exited"
    /\ UNCHANGED << bk, svc, app, val, db, cancelAt, stop, cfg, log, position, committed, msg, order, attempt, lastErr,
                    processingErr, cancelled, fetchErrs, dlqTopic, repo, cache, events >>

\* consumeMessages: the select takes default and calls FetchMessage
StartFetch ==
    /\ pc = "loop"
    /\ ~cancelled
    /\ pc' = "fetching"
    /\ UNCHANGED << bk, svc, app, val, db, cancelAt, stop, cfg, log, position, committed, msg, order, attempt, lastErr,
                    processingErr, cancelled, fetchErrs, dlqTopic, repo, cache, events >>

\* any fetch error ends the loop
afterFetchError_exits(ctxDone) == "exited"

\* consumeMessages: where the loop goes when FetchMessage returned an error
afterFetchError(ctxDone) == IF ctxDone THEN "exited" ELSE "loop"

\* FetchMessage fails (timeout, transport error, closed reader or
\* cancellation); fetchErrs counts the failures up to MaxFetchErrors
FetchFail ==
    /\ pc = "fetching"
    /\ pc' = afterFetchError(cancelled)
    /\ fetchErrs' = IF fetchErrs < MaxFetchErrors THEN fetchErrs + 1 ELSE fetchErrs
    /\ UNCHANGED << bk, svc, app, val, db, cancelAt, stop, cfg, log, position, committed, msg, order, attempt, lastErr,
                    processingErr, cancelled, dlqTopic, repo, cache, events >>

\* FetchMessage returns the next message of the partition; processMessage
\* decodes it and enters processOrderWithRetry.  When the for loop of
\* processOrderWithRetry is not entered at all, lastErr is still nil and
\* lastErr.Error() after the loop panics.
FetchOK ==
    /\ pc = "fetching"
    /\ position <= Len(log)
    /\ msg' = MessageAt(log, position)
    /\ position' = position + 1
    /\ LET d == Unmarshal(msg'.Value) IN
       IF decodeFailed(d)
       THEN /\ processingErr' = Wrap("unmarshal order: ", d.err)
            /\ pc' = afterProcessMessage(processingErr')
            /\ events' = events \o << Ev("fetch", msg'.Offset, TRUE, NoErr),
                                      Ev("decode", msg'.Offset, FALSE, d.err) >>
            /\ UNCHANGED << order, attempt, lastErr >>
       ELSE /\ order' = d.order
            /\ lastErr' = NoErr
            /\ attempt' = 1
            /\ processingErr' = NoErr
            /\ IF retryLoopCond(1, cfg.maxRetries)
               THEN /\ pc' = "attempt"
                    /\ events' = Append(events, Ev("fetch", msg'.Offset, TRUE, NoErr))
               ELSE /\ pc' = "panicked"
                    /\ events' = events \o << Ev("fetch", msg'.Offset, TRUE, NoErr),
                                              Ev("panic", msg'.Offset, FALSE, NoErr) >>
    /\ UNCHANGED << bk, svc, app, val, db, cancelAt, stop, cfg, log, committed, cancelled, fetchErrs, dlqTopic, repo, cache >>

\* processOrderWithRetry: one call of ProcessOrderMessage and what follows it
\* up to the next suspension point
Attempt ==
    /\ pc = "attempt"
    /\ \E r \in ProcessOrderMessage(order, repo, cache) :
         /\ repo' = r.repo
         /\ cache' = r.cache
         /\ IF r.err = NoErr
            THEN /\ pc' = afterProcessMessage(NoErr)
                 /\ processingErr' = NoErr
                 /\ events' = Append(events, Ev("process", msg.Offset, TRUE, NoErr))
                 /\ UNCHANGED << attempt, lastErr >>
            ELSE /\ lastErr' = r.err
                 /\ IF shouldWait(attempt, cfg.maxRetries)
                    THEN /\ pc' = "backoff"
                         /\ events' = Append(events, Ev("process", msg.Offset, FALSE, r.err))
                         /\ UNCHANGED << attempt, processingErr >>
                    ELSE /\ attempt' = attempt + 1
                         /\ events' = Append(events, Ev("process", msg.Offset, FALSE, r.err))
                         /\ IF retryLoopCond(attempt + 1, cfg.maxRetries)
                            THEN /\ pc' = "attempt"
                                 /\ UNCHANGED processingErr
                            ELSE /\ processingErr' = exhaustedErr(cfg.maxRetries, r.err)
                                 /\ pc' = afterProcessMessage(processingErr')
    /\ UNCHANGED << bk, svc, app, val, db, cancelAt, stop, cfg, log, position, committed, msg, order, cancelled, fetchErrs, dlqTopic >>

\* the wait does not look at ctx.Done()
CancelledInThisWait_ignored == FALSE

\* the cancellation arrived while the goroutine was parked in the select of
\* the current backoff wait: the select is decided for ctx.Done()
CancelledInThisWait ==
    cancelled /\ cancelAt.pc = "backoff" /\ cancelAt.n = Len(events)

\* processOrderWithRetry: the backoff timer fires, the loop goes on
BackoffTimer ==
    /\ pc = "backoff"
    /\ ~CancelledInThisWait
    /\ attempt' = attempt + 1
    /\ events' = Append(events, Ev("wait", msg.Offset, TRUE, NoErr))
    /\ IF retryLoopCond(attempt + 1, cfg.maxRetries)
       THEN /\ pc' = "attempt"
            /\ UNCHANGED processingErr
       ELSE /\ processingErr' = exhaustedErr(cfg.maxRetries, lastErr)
            /\ pc' = afterProcessMessage(processingErr')
    /\ UNCHANGED << bk, svc, app, val, db, cancelAt, stop, cfg, log, position, committed, msg, order, lastErr, cancelled,
                    fetchErrs, dlqTopic, repo, cache >>

\* processOrderWithRetry: what the aborted wait returns (ctx.Err())
cancelErr(last) == ErrCtxCanceled

\* processOrderWithRetry: ctx.Done() wins the select of the backoff wait
BackoffCancel ==
    /\ pc = "backoff"
    /\ cancelled
    /\ processingErr' = cancelErr(lastErr)
    /\ pc' = afterProcessMessage(processingErr')
    /\ events' = Append(events, Ev("wait", msg.Offset, FALSE, processingErr'))
    /\ UNCHANGED << bk, svc, app, val, db, cancelAt, stop, cfg, log, position, committed, msg, order, attempt, lastErr,
                    cancelled, fetchErrs, dlqTopic, repo, cache >>

\* handleFailedMessage without a producer: nothing is written, nil is returned
HandleFailedNoProducer ==
    /\ pc = "failed"
    /\ ~producerConfigured(cfg)
    /\ pc' = afterHandleFailed(noProducerResult)
    /\ events' = Append(events, Ev("nodlq", msg.Offset, noProducerResult = NoErr, NoErr))
    /\ UNCHANGED << bk, svc, app, val, db, cancelAt, stop, cfg, log, position, committed, msg, order, attempt, lastErr,
                    processingErr, cancelled, fetchErrs, dlqTopic, repo, cache >>

\* handleFailedMessage: WriteMessages succeeds
DlqWriteOK ==
    /\ pc = "failed"
    /\ producerConfigured(cfg)
    /\ ~stop.producerClosed
    /\ dlqTopic' = Append(dlqTopic, dlqMsg(msg, processingErr))
    /\ pc' = afterHandleFailed(NoErr)
    /\ events' = Append(events, Ev("dlq", msg.Offset, TRUE, NoErr))
    /\ UNCHANGED << bk, svc, app, val, db, cancelAt, stop, cfg, log, position, committed, msg, order, attempt, lastErr,
                    processingErr, cancelled, fetchErrs, repo, cache >>

\* handleFailedMessage: WriteMessages fails
DlqWriteFail ==
    /\ pc = "failed"
    /\ producerConfigured(cfg)
    /\ pc' = afterHandleFailed(Wrap("failed to write to DLQ: ", ErrKafkaWrite))
    /\ events' = Append(events, Ev("dlq", msg.Offset, FALSE, ErrKafkaWrite))
    /\ UNCHANGED << bk, svc, app, val, db, cancelAt, stop, cfg, log, position, committed, msg, order, attempt, lastErr,
                    processingErr, cancelled, fetchErrs, dlqTopic, repo, cache >>

\* CommitMessages(ctx, msg) succeeds: the group offset becomes msg.Offset + 1
CommitOK ==
    /\ pc = "commit"
    /\ ~stop.readerClosed
    /\ committed' = msg.Offset + 1
    /\ pc' = "loop"
    /\ events' = Append(events, Ev("commit", msg.Offset, TRUE, NoErr))
    /\ UNCHANGED << bk, svc, app, val, db, cancelAt, stop, cfg, log, position, msg, order, attempt, lastErr, processingErr,
                    cancelled, fetchErrs, dlqTopic, repo, cache >>

\* CommitMessages(ctx, msg) returns ctx.Err(), or io.ErrClosedPipe once the
\* reader is closed: the error is logged only
CommitFail ==
    /\ pc = "commit"
    /\ cancelled \/ stop.readerClosed
    /\ pc' = "loop"
    /\ events' = Append(events, Ev("commit", msg.Offset, FALSE, ErrCtxCanceled))
    /\ UNCHANGED << bk, svc, app, val, db, cancelAt, stop, cfg, log, position, committed, msg, order, attempt, lastErr,
                    processingErr, cancelled, fetchErrs, dlqTopic, repo, cache >>

\* the context passed to Start is cancelled
Cancel ==
    /\ ~cancelled
    /\ pc \notin { "exited", "panicked" }
    /\ cancelled' = TRUE
    /\ cancelAt' = IF pc = "backoff" THEN [pc |-> "backoff", n |-> Len(events)]
                   ELSE [pc |-> "elsewhere", n |-> 0]
    /\ UNCHANGED << bk, svc, app, val, db, stop, cfg, log, position, committed, pc, msg, order, attempt, lastErr,
                    processingErr, fetchErrs, dlqTopic, repo, cache, events >>

\* Reader.Close() and Writer.Close() of kafka-go return nil
readerCloseErr == NoErr
producerCloseErr == NoErr

\* Stop gives up on a timeout without closing anything
afterStopSelect_returnOnTimeout(branch) == IF branch = "timeout" THEN "return" ELSE "close"

\* Stop: what follows the select, for the branch taken ("done" or "timeout")
afterStopSelect(branch) == "close"

\* Stop: the code after the select, for the branch taken
stopFinish(st, c, branch) ==
    IF afterStopSelect(branch) # "close"
    THEN [st EXCEPT !.pc = "returned", !.timedOut = (branch = "timeout"),
                    !.err = ErrCtxCanceled]
    ELSE IF readerCloseErr # NoErr
    THEN [st EXCEPT !.pc = "returned", !.timedOut = (branch = "timeout"),
                    !.err = Wrap("failed to close kafka reader: ", readerCloseErr)]
    ELSE IF producerConfigured(c)
    THEN [st EXCEPT !.pc = "returned", !.timedOut = (branch = "timeout"),
                    !.readerClosed = TRUE, !.producerClosed = TRUE,
                    !.err = IF producerCloseErr # NoErr
                            THEN Wrap("failed to close kafka dlq producer: ", producerCloseErr)
                            ELSE NoErr]
    ELSE [st EXCEPT !.pc = "returned", !.timedOut = (branch = "timeout"),
                    !.readerClosed = TRUE, !.err = NoErr]

\* Stop(ctx) is called and waits in its select; ctx either never expires
\* (context.Background()) or has a deadline
StopCall ==
    /\ stop.pc = "idle"
    /\ pc # "panicked"
    /\ \E k \in { "never", "deadline" } :
         stop' = [stop EXCEPT !.pc = "waiting", !.ctx = k]
    /\ UNCHANGED << bk, svc, app, val, db, cancelAt, cfg, log, position, committed, pc, msg, order, attempt,
                    lastErr, processingErr, cancelled, fetchErrs, dlqTopic, repo,
                    cache, events >>

\* Stop: wg.Wait() returned (consumeMessages has returned), the select takes done
StopDrained ==
    /\ stop.pc = "waiting"
    /\ pc = "exited"
    /\ stop' = stopFinish(stop, cfg, "done")
    /\ UNCHANGED << bk, svc, app, val, db, cancelAt, cfg, log, position, committed, pc, msg, order, attempt,
                    lastErr, processingErr, cancelled, fetchErrs, dlqTopic, repo,
                    cache, events >>

\* Stop: the deadline of ctx passes and the select takes ctx.Done()
StopTimeout ==
    /\ stop.pc = "waiting"
    /\ stop.ctx = "deadline"
    /\ pc # "panicked"
    /\ stop' = stopFinish(stop, cfg, "timeout")
    /\ UNCHANGED << bk, svc, app, val, db, cancelAt, cfg, log, position, committed, pc, msg, order, attempt,
                    lastErr, processingErr, cancelled, fetchErrs, dlqTopic, repo,
                    cache, events >>

Next ==
    \/ LoopExit
    \/ StartFetch
    \/ FetchFail
    \/ FetchOK
    \/ Attempt
    \/ BackoffTimer
    \/ BackoffCancel
    \/ HandleFailedNoProducer
    \/ DlqWriteOK
    \/ DlqWriteFail
    \/ CommitOK
    \/ CommitFail
    \/ Cancel
    \/ StopCall
    \/ StopDrained
    \/ StopTimeout

Spec == Init /\ [][Next]_vars

\* the goroutines are scheduled and the calls they block in return: every
\* step of the loop and of Stop is taken once it stays possible; nothing
\* obliges the caller to cancel the context or to call Stop
Fairness ==
    /\ WF_vars(LoopExit) /\ WF_vars(StartFetch) /\ WF_vars(FetchFail \/ FetchOK)
    /\ WF_vars(Attempt) /\ WF_vars(BackoffTimer \/ BackoffCancel)
    /\ WF_vars(HandleFailedNoProducer) /\ WF_vars(DlqWriteOK \/ DlqWriteFail)
    /\ WF_vars(CommitOK \/ CommitFail)
    /\ WF_vars(StopDrained) /\ WF_vars(StopTimeout)

FairSpec == Spec /\ Fairness

\* ------------------------------------------------------- calculateBackoff
\* time.Duration is a signed integer of DurationBits bits: 64 in Go, scaled
\* down here together with the delays, so that the same products overflow
DurationBits == 8

MaxAttempt == 4

RECURSIVE Pow(_, _)
Pow(b, e) == IF e = 0 THEN 1 ELSE b * Pow(b, e - 1)

MaxDuration == Pow(2, DurationBits - 1) - 1

MinDuration == 0 - Pow(2, DurationBits - 1)

\* delay += jitter: signed addition wraps around
wrapDuration(x) == ((x - MinDuration) % Pow(2, DurationBits)) + MinDuration

\* the configurations: InitialRetryDelay, BackoffFactor (a ratio), MaxRetryDelay
InitialDelays == { 0 - 1, 0, 1, 3, 10, 20, 40 }

Factors == { [num |-> 1, den |-> 2], [num |-> 1, den |-> 1], [num |-> 21, den |-> 20],
             [num |-> 11, den |-> 10], [num |-> 3, den |-> 2], [num |-> 2, den |-> 1],
             [num |-> 4, den |-> 1] }

MaxDelays == { 0 - 1, 0, 5, 30, 100, MaxDuration }

\* float64(initialRetryDelay) * math.Pow(backoffFactor, k-1), truncated
\* toward zero as the conversion to time.Duration does (initial > 0 here)
backoffOf(c, k) ==
    (c.initial * Pow(c.factor.num, k - 1)) \div Pow(c.factor.den, k - 1)

\* time.Duration(backoff): a value the type cannot hold converts to an
\* implementation-defined result, the smallest Duration on amd64, the
\* largest on arm64
durationOf(b) == IF b <= MaxDuration THEN { b } ELSE { MinDuration, MaxDuration }

\* rand.Int63n(jitterMax) when delay > 0 and jitterMax > 0, no jitter otherwise
jitterOf(delay) ==
    IF delay > 0 /\ delay \div 10 > 0 THEN 0..((delay \div 10) - 1) ELSE { 0 }

\* calculateBackoff: the parameters do not describe a growing delay
fallback(c) == c.initial <= 0 \/ c.factor.num <= c.factor.den \/ c.max <= 0

\* the delay is returned uncapped
capDelay_uncapped(delay, max) == delay

\* calculateBackoff: if delay > c.maxRetryDelay { delay = c.maxRetryDelay }
capDelay(delay, max) == IF delay > max THEN max ELSE delay

\* calculateBackoff(k): every delay it can return for attempt k
calculateBackoff(c, k) ==
    IF fallback(c) THEN { c.initial }
    ELSE UNION { { capDelay(wrapDuration(d + j), c.max) : j \in jitterOf(d) } :
                     d \in durationOf(backoffOf(c, k)) }

\* the consumer is not running
LoopAtRest ==
    /\ cfg = [maxRetries |-> 0, dlq |-> FALSE]
    /\ log = << >>
    /\ position = 1
    /\ committed = FirstOffset
    /\ pc = "exited"
    /\ msg = NoMsg
    /\ order = OrderInvalid
    /\ attempt = 0
    /\ lastErr = NoErr
    /\ processingErr = NoErr
    /\ cancelled = FALSE
    /\ fetchErrs = 0
    /\ dlqTopic = << >>
    /\ repo = {}
    /\ cache = {}
    /\ events = << >>
    /\ cancelAt = NotCancelled
    /\ stop = StopIdle

\* a configuration is chosen
BackoffInit ==
    /\ bk \in [initial : InitialDelays, factor : Factors, max : MaxDelays,
               delays : { << >> }]
    /\ LoopAtRest
    /\ svc = SvcIdle
    /\ app = AppIdle
    /\ val = ValIdle
    /\ db = DbIdle

\* calculateBackoff is called for the next attempt, 1, 2, 3, ...
CalcBackoff ==
    /\ Len(bk.delays) < MaxAttempt
    /\ \E d \in calculateBackoff(bk, Len(bk.delays) + 1) :
           bk' = [bk EXCEPT !.delays = Append(@, d)]
    /\ UNCHANGED << loopVars, svc, app, val, db >>

BackoffNext == CalcBackoff

BackoffSpec == BackoffInit /\ [][BackoffNext]_vars

\* ------------------------------------- the order service, called directly
\* An order with the parts of it the repository and the cache treat
\* differently: the key, the times (in nanoseconds), the back references of
\* the delivery and of the items; valid stands for every other attribute.
MaxReads == 2

\* time.Time{}: CreatedAt.IsZero()
ZeroTime == 0

\* a TIMESTAMPTZ column keeps microseconds
NanosPerMicro == 1000

SvcUID == "b563"

\* time.Now() in OrderRepository.Create
Clock == { 7000, 7001 }

SvcOrders ==
    { [OrderUID |-> u, valid |-> v, DateCreated |-> d, CreatedAt |-> c,
       Delivery |-> [OrderUID |-> ""],
       Items |-> << [OrderUID |-> "", Rid |-> "rid1"] >>] :
          u \in { "", SvcUID }, v \in BOOLEAN, d \in { 3000, 3001 },
          c \in { ZeroTime, 5000 } }

\* a nil *domain.Order
NilOrder == [nil |-> TRUE]

\* the value a TIMESTAMPTZ column holds for this time
toTimestamptz(t) == ((t + (NanosPerMicro \div 2)) \div NanosPerMicro) * NanosPerMicro

\* OrderRepository.Create: the timestamps it sets on the caller's order
stampTimes(o, now) ==
    [o EXCEPT !.CreatedAt = IF @ = ZeroTime THEN now ELSE @]

\* createDelivery: delivery.OrderUID = orderUID, on the caller's order
stampDelivery(o) == [o EXCEPT !.Delivery = [OrderUID |-> o.OrderUID]]

\* createOrder, createDelivery, createItems: the rows inserted for the order
rowOf(o) ==
    [order_uid |-> o.OrderUID, valid |-> o.valid,
     date_created |-> toTimestamptz(o.DateCreated),
     created_at |-> toTimestamptz(o.CreatedAt),
     items |-> [i \in DOMAIN o.Items |-> [rid |-> o.Items[i].Rid]]]

\* getOrderItems: items[i].OrderUID = orderUID
getOrderItems(row, uid) ==
    [i \in DOMAIN row.items |-> [OrderUID |-> uid, Rid |-> row.items[i].rid]]

\* orderRow.toDomainOrder, then order.Items = items
toDomainOrder(row, uid) ==
    [OrderUID |-> row.order_uid, valid |-> row.valid,
     DateCreated |-> row.date_created, CreatedAt |-> row.created_at,
     Delivery |-> [OrderUID |-> row.order_uid],
     Items |-> getOrderItems(row, uid)]

ErrDBDown == << "db unavailable" >>

ErrNotFound(uid) == << "order with uid ", uid, " not found" >>

\* OrderRepository.GetByUID: every result (order, error)
GetByUID(uid, rows) ==
    { [order |-> NilOrder, err |-> Wrap("failed to get order: ", ErrDBDown)] }
    \cup (IF \E row \in rows : row.order_uid = uid
          THEN { [order |-> toDomainOrder(row, uid), err |-> NoErr] :
                     row \in { x \in rows : x.order_uid = uid } }
          ELSE { [order |-> NilOrder, err |-> ErrNotFound(uid)] })

\* json.Marshal(order) in Cache.Set
marshalOrder(o) ==
    [order_uid |-> o.OrderUID, valid |-> o.valid, date_created |-> o.DateCreated,
     created_at |-> o.CreatedAt, delivery |-> [order_uid |-> o.Delivery.OrderUID],
     items |-> [i \in DOMAIN o.Items |->
                   [order_uid |-> o.Items[i].OrderUID, rid |-> o.Items[i].Rid]]]

\* json.Unmarshal(data, &order) in Cache.Get
unmarshalOrder(j) ==
    [OrderUID |-> j.order_uid, valid |-> j.valid, DateCreated |-> j.date_created,
     CreatedAt |-> j.created_at, Delivery |-> [OrderUID |-> j.delivery.order_uid],
     Items |-> [i \in DOMAIN j.items |->
                   [OrderUID |-> j.items[i].order_uid, Rid |-> j.items[i].rid]]]

cacheKey(uid) == << "order:", uid >>

\* Cache.Set went through: the entry for uid holds the encoded order
cacheWritten(kv, uid, o) ==
    { e \in kv : e.key # cacheKey(uid) }
        \cup { [key |-> cacheKey(uid), value |-> marshalOrder(o)] }

\* Cache.Set: the cache after it, whether or not the write went through
cacheSet(kv, uid, o) == { kv, cacheWritten(kv, uid, o) }

\* a stored value that is not the JSON of an order ("invalid json")
CorruptValue == [invalid |-> "json"]

\* every stored value is taken for an order
decodes_always(v) == TRUE

\* Cache.Get: json.Unmarshal(data, &order) returns no error
decodes(v) == v # CorruptValue

\* Cache.Get: every result (found, order, the value read); an entry that
\* is there is missed when the cache cannot be reached, and (nil, false) is
\* returned for a value that does not decode
cacheGet(kv, uid) ==
    { [found |-> FALSE, order |-> NilOrder, value |-> NilOrder] }
    \cup { [found |-> decodes(e.value),
            order |-> IF e.value = CorruptValue THEN NilOrder
                      ELSE unmarshalOrder(e.value),
            value |-> e.value] :
               e \in { x \in kv : x.key = cacheKey(uid) } }

\* the repository is asked whatever the cache said
readsRepo_always(found) == TRUE

\* GetOrderByUID: the repository is asked only when the cache had no entry
readsRepo(found) == ~found

\* the cause is dropped from the error
getErr_opaque(e) == << "order not found" >>

\* GetOrderByUID: fmt.Errorf("failed to get order: %w", err)
getErr(e) == Wrap("failed to get order: ", e)

ErrCacheDown == << "redis: connection refused" >>

\* a failed cache write fails the read
populateErr_propagated(setOk) == IF setOk THEN NoErr ELSE ErrCacheDown

\* GetOrderByUID: Cache.Set returns nothing, the read goes on whatever it did
populateErr(setOk) == NoErr

\* OrderService.GetOrderByUID: every outcome, with what it called and the
\* cache before (kvBefore) and after (kv) it
GetOrderByUID(uid, rows, kv) ==
    UNION { IF ~readsRepo(g.found)
            THEN { [uid |-> uid, called |-> TRUE, hit |-> g.found, repoCalls |-> 0,
                    repoErr |-> NoErr, setCalls |-> 0, setOk |-> FALSE,
                    cached |-> g.value, order |-> g.order, err |-> NoErr,
                    kvBefore |-> kv, kv |-> kv] }
            ELSE UNION { IF r.err # NoErr
                         THEN { [uid |-> uid, called |-> TRUE, hit |-> g.found,
                                 repoCalls |-> 1, repoErr |-> r.err,
                                 setCalls |-> 0, setOk |-> FALSE,
                                 cached |-> g.value, order |-> NilOrder,
                                 err |-> getErr(r.err),
                                 kvBefore |-> kv, kv |-> kv] }
                         ELSE { [uid |-> uid, called |-> TRUE, hit |-> g.found,
                                 repoCalls |-> 1, repoErr |-> NoErr,
                                 setCalls |-> 1, setOk |-> ok,
                                 cached |-> g.value,
                                 order |-> IF populateErr(ok) = NoErr
                                           THEN r.order ELSE NilOrder,
                                 err |-> populateErr(ok),
                                 kvBefore |-> kv,
                                 kv |-> IF ok THEN cacheWritten(kv, uid, r.order)
                                        ELSE kv] :
                                    ok \in BOOLEAN } :
                         r \in GetByUID(uid, rows) } :
            g \in cacheGet(kv, uid) }

NoCall == [uid |-> "", called |-> FALSE, hit |-> FALSE, repoCalls |-> 0,
           repoErr |-> NoErr, setCalls |-> 0, setOk |-> FALSE,
           cached |-> NilOrder, order |-> NilOrder, err |-> NoErr,
           kvBefore |-> {}, kv |-> {}]

\* Order.Validate: the violations in the order they are reported; the
\* payment amount check stands for every check after order_uid
validationErrors(o) ==
    (IF o.OrderUID = "" THEN << << "order_uid: ", "required field" >> >> ELSE << >>)
    \o (IF ~o.valid
        THEN << << "payment.amount: ",
                   "amount must equal goods_total + delivery_cost + custom_fee" >> >>
        ELSE << >>)

\* ValidationResult.GetFirstError
GetFirstError(errs) == IF errs = << >> THEN NoErr ELSE Head(errs)

\* Create is called whatever Validate reported
callsCreate_always(errs) == TRUE

\* ProcessOrderMessage: Create is reached only when Validate reported nothing
callsCreate(errs) == errs = << >>

\* the cache is written whatever Create returned
callsSet_always(createErr) == TRUE

\* ProcessOrderMessage: Cache.Set is reached only when Create returned nil
callsSet(createErr) == createErr = NoErr

\* OrderRepository.Create: every result (error, the caller's order after
\* it, the table after it)
Create(o, rows) ==
    IF validationErrors(o) # << >>
    THEN { [err |-> Wrap("validation failed: ", GetFirstError(validationErrors(o))),
            o |-> o, rows |-> rows] }
    ELSE { [err |-> ErrDBUnavailable, o |-> o, rows |-> rows] }
         \cup { [err |-> Wrap("failed to create order: ", ErrDBDown),
                 o |-> stampTimes(o, now), rows |-> rows] : now \in Clock }
         \cup (IF \E row \in rows : row.order_uid = o.OrderUID
               THEN { [err |-> ErrDuplicateKey, o |-> stampTimes(o, now),
                       rows |-> rows] : now \in Clock }
               ELSE { [err |-> NoErr, o |-> stampDelivery(stampTimes(o, now)),
                       rows |-> rows \cup { rowOf(stampDelivery(stampTimes(o, now))) }] :
                          now \in Clock })

\* OrderService.ProcessOrderMessage: every outcome, with what it called
SvcProcessOutcomes(o, rows, kv) ==
    IF ~callsCreate(validationErrors(o))
    THEN { [err |-> Wrap("order validation failed: ",
                         GetFirstError(validationErrors(o))),
            o |-> o, rows |-> rows, kv |-> kv,
            creates |-> 0, createErr |-> NoErr, sets |-> 0] }
    ELSE UNION { IF ~callsSet(c.err)
                 THEN { [err |-> Wrap("failed to save order: ", c.err),
                         o |-> c.o, rows |-> c.rows, kv |-> kv,
                         creates |-> 1, createErr |-> c.err, sets |-> 0] }
                 ELSE { [err |-> IF c.err = NoErr THEN NoErr
                                 ELSE Wrap("failed to save order: ", c.err),
                         o |-> c.o, rows |-> c.rows, kv |-> k,
                         creates |-> 1, createErr |-> c.err, sets |-> 1] :
                            k \in cacheSet(kv, c.o.OrderUID, c.o) } :
                 c \in Create(o, rows) }

NoProc == [creates |-> 0, createErr |-> NoErr, sets |-> 0,
           rowsBefore |-> {}, kvBefore |-> {}, rows |-> {}, kv |-> {}]

\* an order stored before the service was started
PriorUID == "a111"

PriorOrder ==
    [OrderUID |-> PriorUID, valid |-> TRUE, DateCreated |-> 1000, CreatedAt |-> 2000,
     Delivery |-> [OrderUID |-> PriorUID],
     Items |-> << [OrderUID |-> PriorUID, Rid |-> "rid0"] >>]

\* OrderRepository.GetAll: every result (the orders, the error)
GetAll(rows) ==
    { [orders |-> {}, err |-> Wrap("failed to get all orders with items: ", ErrDBDown)],
      [orders |-> { toDomainOrder(row, row.order_uid) : row \in rows }, err |-> NoErr] }

\* the map holds one of the orders only
orderMap_first(orders) ==
    IF orders = {} THEN << >>
    ELSE LET u == CHOOSE u \in { o.OrderUID : o \in orders } : TRUE
         IN  [x \in { u } |-> CHOOSE o \in orders : o.OrderUID = x]

\* RestoreCache: orderMap[order.OrderUID] = order for every order
orderMap(orders) ==
    [u \in { o.OrderUID : o \in orders } |-> CHOOSE o \in orders : o.OrderUID = u]

\* the cache is loaded with what GetAll returned, error or not
loadsAfter_always(err) == TRUE

\* RestoreCache: LoadFromDB is reached only when GetAll returned no error
loadsAfter(err) == err = NoErr

RECURSIVE LoadFromDB(_, _)
\* Cache.LoadFromDB: Set for every key of the map, each best effort
LoadFromDB(kv, m) ==
    IF DOMAIN m = {} THEN { kv }
    ELSE LET u == CHOOSE u \in DOMAIN m : TRUE
             rest == [x \in DOMAIN m \ { u } |-> m[x]]
         IN  UNION { cacheSet(k, u, m[u]) : k \in LoadFromDB(kv, rest) }

\* OrderService.RestoreCache: every outcome
RestoreCache(rows, kv) ==
    UNION { IF ~loadsAfter(g.err)
            THEN { [called |-> TRUE, err |-> Wrap("failed to get orders from database: ", g.err),
                    repoErr |-> g.err, got |-> g.orders, loads |-> 0,
                    loaded |-> << >>, kvBefore |-> kv, kv |-> kv] }
            ELSE { [called |-> TRUE, err |-> NoErr, repoErr |-> g.err,
                    got |-> g.orders, loads |-> 1,
                    loaded |-> orderMap(g.orders), kvBefore |-> kv, kv |-> k] :
                       k \in LoadFromDB(kv, orderMap(g.orders)) } :
            g \in GetAll(rows) }

NoRestore == [called |-> FALSE, err |-> NoErr, repoErr |-> NoErr, got |-> {},
              loads |-> 0, loaded |-> << >>, kvBefore |-> {}, kv |-> {}]

\* an order has been decoded; the table holds an earlier order or none,
\* and the cache holds that order, a value that does not decode, or nothing
SvcInit ==
    /\ \E prior \in { {}, { rowOf(PriorOrder) } } :
       \E warm \in { {}, { [key |-> cacheKey(PriorUID), value |-> CorruptValue] } }
                       \cup { cacheWritten({}, PriorUID, toDomainOrder(r, PriorUID)) :
                                  r \in prior } :
           svc \in [pc : { "new" }, o : SvcOrders, rows : { prior }, kv : { warm },
                    reads : { 0 }, err : { NoErr }, last : { NoCall },
                    prev : { NoCall }, proc : { NoProc },
                    restore : { NoRestore }]
    /\ LoopAtRest
    /\ bk = BkIdle
    /\ app = AppIdle
    /\ val = ValIdle
    /\ db = DbIdle

\* what ProcessOrderMessage did, for the record
procOf(out, rows, kv) ==
    [creates |-> out.creates, createErr |-> out.createErr, sets |-> out.sets,
     rowsBefore |-> rows, kvBefore |-> kv, rows |-> out.rows, kv |-> out.kv]

\* ProcessOrderMessage: validation fails, nothing is written
SvcProcessInvalid ==
    /\ svc.pc = "new"
    /\ \E out \in SvcProcessOutcomes(svc.o, svc.rows, svc.kv) :
          /\ out.createErr = NoErr /\ out.err # NoErr
          /\ svc' = [svc EXCEPT !.pc = "failed", !.err = out.err, !.o = out.o,
                                !.rows = out.rows, !.kv = out.kv,
                                !.proc = procOf(out, svc.rows, svc.kv)]
    /\ UNCHANGED << loopVars, bk, app, val, db >>

\* ProcessOrderMessage: Create fails, before or after it stamped the order;
\* the cache is not written
SvcProcessCreateFails ==
    /\ svc.pc = "new"
    /\ \E out \in SvcProcessOutcomes(svc.o, svc.rows, svc.kv) :
          /\ out.createErr # NoErr
          /\ svc' = [svc EXCEPT !.pc = "failed", !.err = out.err, !.o = out.o,
                                !.rows = out.rows, !.kv = out.kv,
                                !.proc = procOf(out, svc.rows, svc.kv)]
    /\ UNCHANGED << loopVars, bk, app, val, db >>

\* ProcessOrderMessage: Create commits, then Cache.Set (best effort)
SvcProcessOK ==
    /\ svc.pc = "new"
    /\ \E out \in SvcProcessOutcomes(svc.o, svc.rows, svc.kv) :
          /\ out.err = NoErr
          /\ svc' = [svc EXCEPT !.pc = "stored", !.err = NoErr, !.o = out.o,
                                !.rows = out.rows, !.kv = out.kv,
                                !.proc = procOf(out, svc.rows, svc.kv)]
    /\ UNCHANGED << loopVars, bk, app, val, db >>

\* the TTL of a cache entry runs out
SvcEvict ==
    /\ svc.pc # "idle"
    /\ \E e \in svc.kv : svc' = [svc EXCEPT !.kv = @ \ { e }]
    /\ UNCHANGED << loopVars, bk, app, val, db >>

\* a client calls GetOrderByUID; last is this call, and prev the one before
\* it when that one read an entry that did not decode
SvcGet ==
    /\ svc.pc \in { "stored", "failed" }
    /\ svc.reads < MaxReads
    /\ \E uid \in { SvcUID, PriorUID, "other" } :
       \E out \in GetOrderByUID(uid, svc.rows, svc.kv) :
           svc' = [svc EXCEPT !.reads = @ + 1, !.kv = out.kv, !.last = out,
                              !.prev = IF svc.last.cached = CorruptValue
                                       THEN svc.last ELSE NoCall]
    /\ UNCHANGED << loopVars, bk, app, val, db >>

\* RestoreCache is called
SvcRestore ==
    /\ svc.pc # "idle"
    /\ ~svc.restore.called
    /\ \E out \in RestoreCache(svc.rows, svc.kv) :
           svc' = [svc EXCEPT !.kv = out.kv, !.restore = out]
    /\ UNCHANGED << loopVars, bk, app, val, db >>

ServiceNext ==
    \/ SvcProcessInvalid
    \/ SvcProcessCreateFails
    \/ SvcProcessOK
    \/ SvcEvict
    \/ SvcGet
    \/ SvcRestore

ServiceSpec == SvcInit /\ [][ServiceNext]_vars

\* ------------------------------------------------ the application and HTTP
MaxRequests == 2

StatusOK == 200

StatusBadRequest == 400

StatusNotFound == 404

StatusServiceUnavailable == 503

ErrDBPing == << "db ping: connection refused" >>

ErrRedisPing == << "redis ping: connection refused" >>

\* Consumer.Health: the errors it can return
ConsumerHealthErrors ==
    { << "kafka dial error: ", "connection refused" >>,
      << "kafka reader lag negative: ", "-1" >> }

ErrAddrInUse == << "listen tcp: address already in use" >>

\* the consumer is asked first
healthChecks_consumerFirst == << "consumer", "db", "redis" >>

\* App.Health: the order of its checks
healthChecks == << "db", "redis", "consumer" >>

\* App.Health: res[c] is what check c returns when it is run; the checks
\* run in order and the first error is returned
Health(res) ==
    LET failing == { i \in DOMAIN healthChecks : res[healthChecks[i]] # NoErr }
    IN  IF failing = {}
        THEN [err |-> NoErr, ran |-> healthChecks]
        ELSE LET i == CHOOSE i \in failing : \A j \in failing : i <= j
             IN  [err |-> res[healthChecks[i]], ran |-> SubSeq(healthChecks, 1, i)]

\* NewRouter: the /healthz handler
healthz(err) == IF err # NoErr THEN StatusServiceUnavailable ELSE StatusOK

\* OrderHandler.GetOrderByUID: every response, with the service call made
handleGetOrder(uid, rows, kv) ==
    IF uid = ""
    THEN { [uid |-> uid, called |-> TRUE, status |-> StatusBadRequest,
            body |-> << "order_uid is required" >>, svcCalls |-> 0, out |-> NoCall] }
    ELSE { IF out.err # NoErr
           THEN [uid |-> uid, called |-> TRUE, status |-> StatusNotFound,
                 body |-> << "Order not found" >>, svcCalls |-> 1, out |-> out]
           ELSE [uid |-> uid, called |-> TRUE, status |-> StatusOK,
                 body |-> marshalOrder(out.order), svcCalls |-> 1, out |-> out] :
               out \in GetOrderByUID(uid, rows, kv) }

NoRequest == [uid |-> "", called |-> FALSE, status |-> 0, body |-> << >>,
              svcCalls |-> 0, out |-> NoCall]

NoHealth == [called |-> FALSE, db |-> NoErr, redis |-> NoErr, consumer |-> NoErr,
             err |-> NoErr, ran |-> << >>, status |-> 0]

\* a failed restore ends Run
afterRestore_fatal(err) == IF err # NoErr THEN "exited" ELSE "restored"

\* App.Run: the error of RestoreCache is logged and Run goes on
afterRestore(err) == "restored"

\* the application is built; the table holds an earlier order or none, and
\* Redis holds that order or nothing
AppInit ==
    /\ \E prior \in { {}, { rowOf(PriorOrder) } } :
       \E warm \in { {} } \cup { cacheWritten({}, PriorUID, toDomainOrder(r, PriorUID)) :
                                  r \in prior } :
           app = [pc |-> "init", steps |-> << >>, restoreErr |-> NoErr,
                  runErr |-> NoErr, rows |-> prior, kv |-> warm, requests |-> 0,
                  health |-> NoHealth, http |-> NoRequest]
    /\ LoopAtRest
    /\ bk = BkIdle
    /\ svc = SvcIdle
    /\ val = ValIdle
    /\ db = DbIdle

\* App.Run: RestoreCache
AppRestoreCache ==
    /\ app.pc = "init"
    /\ \E out \in RestoreCache(app.rows, app.kv) :
           app' = [app EXCEPT !.pc = afterRestore(out.err),
                              !.steps = Append(@, "restore"),
                              !.restoreErr = out.err, !.kv = out.kv]
    /\ UNCHANGED << loopVars, bk, svc, val, db >>

\* App.Run: consumer.Start, which starts the loop and returns nil
AppStartConsumer ==
    /\ app.pc = "restored"
    /\ app' = [app EXCEPT !.pc = "consuming", !.steps = Append(@, "consumer")]
    /\ UNCHANGED << loopVars, bk, svc, val, db >>

\* App.Run: server.ListenAndServe serves
AppListen ==
    /\ app.pc = "consuming"
    /\ app' = [app EXCEPT !.pc = "serving", !.steps = Append(@, "server")]
    /\ UNCHANGED << loopVars, bk, svc, val, db >>

\* App.Run: server.ListenAndServe returns an error at once
AppListenFail ==
    /\ app.pc = "consuming"
    /\ app' = [app EXCEPT !.pc = "exited", !.steps = Append(@, "server"),
                          !.runErr = ErrAddrInUse]
    /\ UNCHANGED << loopVars, bk, svc, val, db >>

\* GET /healthz
AppHealth ==
    /\ app.pc = "serving"
    /\ app.requests < MaxRequests
    /\ \E d \in { NoErr, ErrDBPing }, r \in { NoErr, ErrRedisPing },
          c \in { NoErr } \cup ConsumerHealthErrors :
          LET h == Health([x \in { "db", "redis", "consumer" } |->
                              IF x = "db" THEN d ELSE IF x = "redis" THEN r ELSE c])
          IN  app' = [app EXCEPT !.requests = @ + 1,
                                 !.health = [called |-> TRUE, db |-> d, redis |-> r,
                                             consumer |-> c, err |-> h.err,
                                             ran |-> h.ran, status |-> healthz(h.err)]]
    /\ UNCHANGED << loopVars, bk, svc, val, db >>

\* GET /order/{order_uid}, the handler called with any id
AppGetOrder ==
    /\ app.pc = "serving"
    /\ app.requests < MaxRequests
    /\ \E uid \in { "", PriorUID, "other" } :
       \E q \in handleGetOrder(uid, app.rows, app.kv) :
           app' = [app EXCEPT !.requests = @ + 1, !.http = q,
                              !.kv = IF q.svcCalls = 0 THEN @ ELSE q.out.kv]
    /\ UNCHANGED << loopVars, bk, svc, val, db >>

AppNext ==
    \/ AppRestoreCache
    \/ AppStartConsumer
    \/ AppListen
    \/ AppListenFail
    \/ AppHealth
    \/ AppGetOrder

AppSpec == AppInit /\ [][AppNext]_vars

\* ------------------------------------------------------------- validation
\* the machine integers of the model are IntBits wide, two's complement
IntBits == 4

MaxInt == Pow(2, IntBits - 1) - 1

MinInt == 0 - Pow(2, IntBits - 1)

\* signed addition wraps around
wrapInt(x) == ((x - MinInt) % Pow(2, IntBits)) + MinInt

\* strings.TrimSpace over the strings of the model: "", " " and "x"
TrimSpace(str) == IF str = " " THEN "" ELSE str

\* ValidationResult.AddError for each check that fires, in order
addErrors(checks) ==
    LET RECURSIVE collect(_)
        collect(k) ==
            IF k > Len(checks) THEN << >>
            ELSE (IF checks[k].bad
                  THEN << [Field |-> checks[k].Field, Message |-> checks[k].Message] >>
                  ELSE << >>) \o collect(k + 1)
    IN  collect(1)

\* the custom fee is left out of the sum
expectedTotal_noFee(p) == wrapInt(p.GoodsTotal + p.DeliveryCost)

\* Payment.Validate: expectedTotal := p.GoodsTotal + p.DeliveryCost + p.CustomFee
expectedTotal(p) == wrapInt(wrapInt(p.GoodsTotal + p.DeliveryCost) + p.CustomFee)

\* Payment.Validate
validatePayment(p) ==
    addErrors(<<
        [bad |-> TrimSpace(p.Transaction) = "", Field |-> << "transaction" >>,
         Message |-> "required field"],
        [bad |-> TrimSpace(p.Currency) = "", Field |-> << "currency" >>,
         Message |-> "required field"],
        [bad |-> TrimSpace(p.Provider) = "", Field |-> << "provider" >>,
         Message |-> "required field"],
        [bad |-> p.Amount < 0, Field |-> << "amount" >>,
         Message |-> "must be non-negative"],
        [bad |-> p.PaymentDt <= 0, Field |-> << "payment_dt" >>,
         Message |-> "must be positive"],
        [bad |-> p.DeliveryCost < 0, Field |-> << "delivery_cost" >>,
         Message |-> "must be non-negative"],
        [bad |-> p.GoodsTotal < 0, Field |-> << "goods_total" >>,
         Message |-> "must be non-negative"],
        [bad |-> p.CustomFee < 0, Field |-> << "custom_fee" >>,
         Message |-> "must be non-negative"],
        [bad |-> p.Amount # expectedTotal(p), Field |-> << "amount" >>,
         Message |-> "must equal goods_total + delivery_cost + custom_fee"] >>)

\* Delivery.Validate
validateDelivery(d) ==
    addErrors(<<
        [bad |-> TrimSpace(d.Name) = "", Field |-> << "name" >>,
         Message |-> "required field"],
        [bad |-> TrimSpace(d.Phone) = "", Field |-> << "phone" >>,
         Message |-> "required field"],
        [bad |-> TrimSpace(d.City) = "", Field |-> << "city" >>,
         Message |-> "required field"],
        [bad |-> TrimSpace(d.Address) = "", Field |-> << "address" >>,
         Message |-> "required field"] >>)

\* Item.Validate
validateItem(i) ==
    addErrors(<<
        [bad |-> i.ChrtID <= 0, Field |-> << "chrt_id" >>, Message |-> "must be positive"],
        [bad |-> TrimSpace(i.TrackNumber) = "", Field |-> << "track_number" >>,
         Message |-> "required field"],
        [bad |-> i.Price < 0, Field |-> << "price" >>, Message |-> "must be non-negative"],
        [bad |-> TrimSpace(i.Rid) = "", Field |-> << "rid" >>, Message |-> "required field"],
        [bad |-> TrimSpace(i.Name) = "", Field |-> << "name" >>, Message |-> "required field"],
        [bad |-> i.Sale < 0, Field |-> << "sale" >>, Message |-> "must be non-negative"],
        [bad |-> TrimSpace(i.Size) = "", Field |-> << "size" >>, Message |-> "required field"],
        [bad |-> i.TotalPrice < 0, Field |-> << "total_price" >>,
         Message |-> "must be non-negative"],
        [bad |-> i.NmID <= 0, Field |-> << "nm_id" >>, Message |-> "must be positive"],
        [bad |-> TrimSpace(i.Brand) = "", Field |-> << "brand" >>,
         Message |-> "required field"],
        [bad |-> i.Status < 0, Field |-> << "status" >>, Message |-> "required field"] >>)

\* result.AddError(prefix + err.Field, err.Message) for every error of a part;
\* a field is the sequence of its path components
prefixed(prefix, errs) ==
    [k \in DOMAIN errs |-> [Field |-> prefix \o errs[k].Field, Message |-> errs[k].Message]]

RECURSIVE itemErrors(_, _)
\* Order.Validate: the loop over o.Items, from item k on (indices from 0)
itemErrors(items, k) ==
    IF k > Len(items) THEN << >>
    ELSE prefixed(<< "items", k - 1 >>, validateItem(items[k])) \o itemErrors(items, k + 1)

\* the check of the item list is left out
itemsCheck_skipped(o) == << >>

\* Order.Validate: if len(o.Items) == 0
itemsCheck(o) ==
    addErrors(<< [bad |-> Len(o.Items) = 0, Field |-> << "items" >>,
                  Message |-> "at least one item required"] >>)

\* Order.Validate: the errors of Payment.Validate under "payment."
paymentErrors(o) == prefixed(<< "payment" >>, validatePayment(o.Payment))

\* Order.Validate
validateOrder(o) ==
    addErrors(<<
        [bad |-> o.OrderUID = "", Field |-> << "order_uid" >>, Message |-> "required field"],
        [bad |-> o.TrackNumber = "", Field |-> << "track_number" >>,
         Message |-> "required field"],
        [bad |-> o.Entry = "", Field |-> << "entry" >>, Message |-> "required field"],
        [bad |-> o.Locale = "", Field |-> << "locale" >>, Message |-> "required field"],
        [bad |-> o.CustomerID = "", Field |-> << "customer_id" >>,
         Message |-> "required field"] >>)
    \o itemsCheck(o)
    \o prefixed(<< "delivery" >>, validateDelivery(o.Delivery))
    \o paymentErrors(o)
    \o itemErrors(o.Items, 1)

\* the values validation is run on
Texts == { "", " ", "x" }

Moneys == { 0 - 1, 0, 2, MaxInt }

Payments ==
    [Transaction : { " ", "x" }, Currency : { "", "x" }, Provider : { " ", "x" },
     Amount : { 0 - 1, 0, 2, MaxInt - 2, MaxInt }, PaymentDt : { 0, 1 },
     DeliveryCost : Moneys, GoodsTotal : Moneys, CustomFee : Moneys]

Deliveries == [Name : Texts, Phone : Texts, City : Texts, Address : Texts]

Items ==
    [ChrtID : { 0 - 1, 0, 1 }, TrackNumber : Texts, Price : { 0 - 1, 0 },
     Rid : Texts, Name : { " ", "x" }, Sale : { 0 - 1, 0 }, Size : { "", "x" },
     TotalPrice : { 0 - 1, 0 }, NmID : { 0 - 1, 0, 1 }, Brand : { " ", "x" },
     Status : { 0 - 1, 0 }]

validItem ==
    [ChrtID |-> 1, TrackNumber |-> "x", Price |-> 0, Rid |-> "x", Name |-> "x",
     Sale |-> 0, Size |-> "x", TotalPrice |-> 0, NmID |-> 1, Brand |-> "x", Status |-> 0]

validDelivery == [Name |-> "x", Phone |-> "x", City |-> "x", Address |-> "x"]

\* the orders: every combination of the header fields, a few item lists and
\* deliveries, and the payments over non-negative amounts
Orders ==
    [OrderUID : { "", "x" }, TrackNumber : { "", "x" }, Entry : { "", "x" },
     Locale : { "", "x" }, CustomerID : { "", "x" },
     Items : { << >>, << validItem >>, << [validItem EXCEPT !.Rid = ""] >>,
               << [validItem EXCEPT !.TrackNumber = " "] >>,
               << validItem, [validItem EXCEPT !.NmID = 0] >> },
     Delivery : { validDelivery, [validDelivery EXCEPT !.Name = " "],
                  [validDelivery EXCEPT !.City = ""] },
     Payment : [Transaction : { "x" }, Currency : { "x" }, Provider : { "x" },
                Amount : { 0, 2, MaxInt }, PaymentDt : { 0, 1 },
                DeliveryCost : { 0, 2, MaxInt }, GoodsTotal : { 0, MaxInt },
                CustomFee : { 0, 2 }]]

\* a value is given to its Validate
ValInit ==
    /\ \/ val \in [pc : { "input" }, kind : { "order" }, in : Orders, errors : { << >> }]
       \/ val \in [pc : { "input" }, kind : { "payment" }, in : Payments, errors : { << >> }]
       \/ val \in [pc : { "input" }, kind : { "delivery" }, in : Deliveries, errors : { << >> }]
       \/ val \in [pc : { "input" }, kind : { "item" }, in : Items, errors : { << >> }]
    /\ LoopAtRest
    /\ bk = BkIdle
    /\ svc = SvcIdle
    /\ app = AppIdle
    /\ db = DbIdle

\* o.Validate()
ValidateOrder ==
    /\ val.pc = "input" /\ val.kind = "order"
    /\ val' = [val EXCEPT !.pc = "done", !.errors = validateOrder(val.in)]
    /\ UNCHANGED << loopVars, bk, svc, app, db >>

\* p.Validate()
ValidatePayment ==
    /\ val.pc = "input" /\ val.kind = "payment"
    /\ val' = [val EXCEPT !.pc = "done", !.errors = validatePayment(val.in)]
    /\ UNCHANGED << loopVars, bk, svc, app, db >>

\* d.Validate()
ValidateDelivery ==
    /\ val.pc = "input" /\ val.kind = "delivery"
    /\ val' = [val EXCEPT !.pc = "done", !.errors = validateDelivery(val.in)]
    /\ UNCHANGED << loopVars, bk, svc, app, db >>

\* i.Validate()
ValidateItem ==
    /\ val.pc = "input" /\ val.kind = "item"
    /\ val' = [val EXCEPT !.pc = "done", !.errors = validateItem(val.in)]
    /\ UNCHANGED << loopVars, bk, svc, app, db >>

ValNext ==
    \/ ValidateOrder
    \/ ValidatePayment
    \/ ValidateDelivery
    \/ ValidateItem

ValSpec == ValInit /\ [][ValNext]_vars

\* -------------------------------------------- the repository's transaction
MaxCreates == 2

MaxQueries == 2

RepoUIDs == { "b563", "a111" }

\* Create writes these in this order
Parts == << "order", "delivery", "payment", "items" >>

\* the rows of uid in a set of (uid, part) rows
partsOf(rows, uid) == { r[2] : r \in { x \in rows : x[1] = uid } }

\* what was written before the error stays in the tables
afterCreateError_kept(written) == written

\* OrderRepository.Create: the deferred tx.Rollback() on every error, and
\* what the tables get of the writes made so far
afterCreateError(written) == {}

NoCreate == [uid |-> "", called |-> FALSE, failed |-> FALSE, steps |-> 0,
             before |-> {}, after |-> {}]

NoQuery == [uid |-> "", called |-> FALSE, found |-> FALSE,
            delivery |-> FALSE, payment |-> FALSE, items |-> FALSE]

\* the repository over empty tables
RepoInit ==
    /\ db = [pc |-> "ready", tables |-> {},
             tx |-> [pc |-> "none", uid |-> "", written |-> {}, before |-> {}],
             rd |-> [pc |-> "none", uid |-> "", delivery |-> FALSE, payment |-> FALSE],
             creates |-> 0, queries |-> 0, lastCreate |-> NoCreate, lastQuery |-> NoQuery]
    /\ LoopAtRest
    /\ bk = BkIdle
    /\ svc = SvcIdle
    /\ app = AppIdle
    /\ val = ValIdle

\* OrderRepository.Create: BeginTxx succeeds
TxBegin ==
    /\ db.pc = "ready" /\ db.tx.pc = "none"
    /\ db.creates < MaxCreates
    /\ \E uid \in RepoUIDs :
          db' = [db EXCEPT !.creates = @ + 1,
                           !.tx = [pc |-> "open", uid |-> uid, written |-> {},
                                   before |-> db.tables]]
    /\ UNCHANGED << loopVars, bk, svc, app, val >>

\* OrderRepository.Create: BeginTxx fails, Create returns the error
TxBeginFail ==
    /\ db.pc = "ready" /\ db.tx.pc = "none"
    /\ db.creates < MaxCreates
    /\ \E uid \in RepoUIDs :
          db' = [db EXCEPT !.creates = @ + 1,
                           !.lastCreate = [uid |-> uid, called |-> TRUE, failed |-> TRUE,
                                           steps |-> 0, before |-> db.tables,
                                           after |-> db.tables]]
    /\ UNCHANGED << loopVars, bk, svc, app, val >>

\* createOrder, createDelivery, createPayment, createItems: the next insert
\* succeeds inside the transaction; the order insert fails on a taken key
TxInsert ==
    /\ db.pc = "ready" /\ db.tx.pc = "open"
    /\ Cardinality(db.tx.written) < Len(Parts)
    /\ LET part == Parts[Cardinality(db.tx.written) + 1]
       IN  /\ part = "order" => << db.tx.uid, "order" >> \notin db.tables
           /\ db' = [db EXCEPT !.tx.written = @ \cup { << db.tx.uid, part >> }]
    /\ UNCHANGED << loopVars, bk, svc, app, val >>

\* the next insert fails: Create returns, the deferred function rolls back
TxInsertFail ==
    /\ db.pc = "ready" /\ db.tx.pc = "open"
    /\ Cardinality(db.tx.written) < Len(Parts)
    /\ db' = [db EXCEPT !.tx.pc = "failed"]
    /\ UNCHANGED << loopVars, bk, svc, app, val >>

\* tx.Commit() succeeds: every row of the transaction becomes visible at once
TxCommit ==
    /\ db.pc = "ready" /\ db.tx.pc = "open"
    /\ Cardinality(db.tx.written) = Len(Parts)
    /\ db' = [db EXCEPT !.tables = @ \cup db.tx.written,
                        !.tx.pc = "none",
                        !.lastCreate = [uid |-> db.tx.uid, called |-> TRUE,
                                        failed |-> FALSE, steps |-> Len(Parts),
                                        before |-> db.tx.before,
                                        after |-> db.tables \cup db.tx.written]]
    /\ UNCHANGED << loopVars, bk, svc, app, val >>

\* tx.Commit() fails: Create returns the error
TxCommitFail ==
    /\ db.pc = "ready" /\ db.tx.pc = "open"
    /\ Cardinality(db.tx.written) = Len(Parts)
    /\ db' = [db EXCEPT !.tx.pc = "failed"]
    /\ UNCHANGED << loopVars, bk, svc, app, val >>

\* Create has returned an error: the transaction is over
TxRollback ==
    /\ db.pc = "ready" /\ db.tx.pc = "failed"
    /\ db' = [db EXCEPT !.tables = @ \cup afterCreateError(db.tx.written),
                        !.tx.pc = "none",
                        !.lastCreate = [uid |-> db.tx.uid, called |-> TRUE,
                                        failed |-> TRUE,
                                        steps |-> Cardinality(db.tx.written),
                                        before |-> db.tx.before,
                                        after |-> db.tables
                                            \cup afterCreateError(db.tx.written)]]
    /\ UNCHANGED << loopVars, bk, svc, app, val >>

\* GetByUID: the query over orders joined with delivery and payment, run
\* outside any transaction: it sees committed rows only
ReadOrder ==
    /\ db.pc = "ready" /\ db.rd.pc = "none"
    /\ db.queries < MaxQueries
    /\ \E uid \in RepoUIDs :
          IF << uid, "order" >> \in db.tables
          THEN db' = [db EXCEPT !.queries = @ + 1,
                                !.rd = [pc |-> "items", uid |-> uid,
                                        delivery |-> << uid, "delivery" >> \in db.tables,
                                        payment |-> << uid, "payment" >> \in db.tables]]
          ELSE db' = [db EXCEPT !.queries = @ + 1,
                                !.lastQuery = [uid |-> uid, called |-> TRUE,
                                               found |-> FALSE, delivery |-> FALSE,
                                               payment |-> FALSE, items |-> FALSE]]
    /\ UNCHANGED << loopVars, bk, svc, app, val >>

\* GetByUID: getOrderItems, a second query; the order is returned
ReadItems ==
    /\ db.pc = "ready" /\ db.rd.pc = "items"
    /\ db' = [db EXCEPT !.rd.pc = "none",
                        !.lastQuery = [uid |-> db.rd.uid, called |-> TRUE,
                                       found |-> TRUE, delivery |-> db.rd.delivery,
                                       payment |-> db.rd.payment,
                                       items |-> << db.rd.uid, "items" >> \in db.tables]]
    /\ UNCHANGED << loopVars, bk, svc, app, val >>

RepoNext ==
    \/ TxBegin
    \/ TxBeginFail
    \/ TxInsert
    \/ TxInsertFail
    \/ TxCommit
    \/ TxCommitFail
    \/ TxRollback
    \/ ReadOrder
    \/ ReadItems

RepoSpec == RepoInit /\ [][RepoNext]_vars

\* ------------------------------------------------------ reading the trace
Idx == 1..Len(events)

IsFetch(i) == events[i].ev = "fetch"

FetchIdx == { i \in Idx : IsFetch(i) }

\* the fetch that opened the cycle event j belongs to
CycleOf(j) == CHOOSE i \in 1..j : IsFetch(i) /\ \A k \in (i + 1)..j : ~IsFetch(k)

\* the events of the cycle opened by fetch i
InCycle(i) == { j \in Idx : j >= i /\ CycleOf(j) = i }

\* the cycle opened by fetch i has come back to the top of the loop
CycleDone(i) ==
    \/ \E k \in FetchIdx : k > i
    \/ pc \in { "loop", "fetching", "exited" }

Is(j, e) == events[j].ev = e

ProcessIdx(i) == { j \in InCycle(i) : Is(j, "process") }
WaitIdx(i) == { j \in InCycle(i) : Is(j, "wait") }
DlqIdx(i) == { j \in InCycle(i) : Is(j, "dlq") }
CommitIdx(i) == { j \in InCycle(i) : Is(j, "commit") }

\* ProcessMessage succeeded, or the dead-letter write succeeded
Resolves(j) == (Is(j, "process") \/ Is(j, "dlq")) /\ events[j].ok

MsgOfOffset(off) == MessageAt(log, off - FirstOffset + 1)

\* ------------------------------------------------------------------ C1
\* C1: with a dead-letter destination configured, a commit is issued for a
\* fetched message only after ProcessMessage succeeded for that message or a
\* dead-letter write for that message succeeded, in that fetch cycle; the
\* loop stands before a commit in no other situation.
C1_CommitOnlyAfterResolution ==
    cfg.dlq =>
        /\ \A j \in Idx : Is(j, "commit") =>
               \E r \in CycleOf(j)..(j - 1) :
                   Resolves(r) /\ events[r].off = events[j].off
        /\ pc = "commit" =>
               /\ Len(events) > 0
               /\ Resolves(Len(events))
               /\ events[Len(events)].off = msg.Offset

\* a run that committed one message after a dead-letter write and another
\* after a successful ProcessMessage
C1_Witness ==
    /\ cfg.dlq
    /\ \E j \in Idx : Is(j, "commit") /\ j > 1 /\ Is(j - 1, "dlq") /\ events[j - 1].ok
    /\ \E j \in Idx : Is(j, "commit") /\ j > 1 /\ Is(j - 1, "process") /\ events[j - 1].ok

\* ------------------------------------------------------------------ C2
\* the message at offset off was fetched again after event j and resolved
RefetchedAndResolved(off, j) ==
    \E i \in FetchIdx : i > j /\ events[i].off = off
                        /\ \E r \in InCycle(i) : Resolves(r)

\* C2 (as claimed): after a failed dead-letter write for a message no commit
\* is issued for it in that fetch cycle, and its offset stays uncommitted
\* (the group offset does not pass it) until the message has been fetched
\* again and resolved.
C2_UncommittedUntilRedelivered ==
    \A j \in Idx : (Is(j, "dlq") /\ ~events[j].ok) =>
        /\ CommitIdx(CycleOf(j)) = { }
        /\ committed > events[j].off => RefetchedAndResolved(events[j].off, j)

\* ------------------------------------------------------------------ C3
\* C3 (as claimed): after a failed dead-letter write for a message the next
\* successful fetch returns that same record again, not a later one.
C3_NextFetchRedelivers ==
    \A j \in Idx : (Is(j, "dlq") /\ ~events[j].ok) =>
        \A i \in FetchIdx :
            (i > j /\ \A k \in (j + 1)..(i - 1) : ~IsFetch(k)) =>
                events[i].off = events[j].off

\* ------------------------------------------------------------------ C4
\* the message at offset off was resolved before event j; a message handled
\* without a dead-letter destination is counted as resolved as well
ResolvedBefore(off, j) ==
    \E r \in 1..(j - 1) :
        /\ events[r].off = off
        /\ Resolves(r) \/ (Is(r, "nodlq") /\ events[r].ok)

\* C4 (as claimed): no message later than m in the partition is committed
\* before m's outcome is resolved.
C4_NoLaterCommitBeforeResolution ==
    \A j \in Idx : (Is(j, "commit") /\ events[j].ok) =>
        \A off \in FirstOffset..(events[j].off - 1) : ResolvedBefore(off, j)

\* ------------------------------------------------------------------ C7
Decodes(off) == Unmarshal(MsgOfOffset(off).Value).err = NoErr

\* C7 (as claimed): a fetched message that decodes leads to at least one
\* ProcessMessage call and, when that call succeeds, to a commit of the
\* message, for every configuration, MaxRetries = 0 included.
C7_DecodedMessageIsProcessed ==
    \A i \in FetchIdx : Decodes(events[i].off) =>
        /\ i = Len(events) => pc = "attempt"
        /\ i < Len(events) => Is(i + 1, "process")
        /\ \A j \in ProcessIdx(i) : events[j].ok =>
               /\ j = Len(events) => pc = "commit"
               /\ j < Len(events) => (Is(j + 1, "commit") /\ events[j + 1].off = events[i].off)

\* ------------------------------------------------------------------ C5
\* the message of the cycle opened by fetch i decoded, every ProcessMessage
\* call for it failed and no dead-letter write for it failed
AllAttemptsFailed(i) ==
    /\ Decodes(events[i].off)
    /\ \A j \in ProcessIdx(i) : ~events[j].ok
    /\ \A j \in DlqIdx(i) : events[j].ok

\* C5: for a fetched message whose every ProcessMessage attempt fails
\* (MaxRetries >= 1, dead-letter destination configured and writable, no
\* cancellation) the cycle performs exactly one dead-letter write and exactly
\* one commit for that message, the commit after the successful write.
C5_OneDlqWriteThenOneCommit ==
    (cfg.maxRetries >= 1 /\ cfg.dlq /\ ~cancelled) =>
        \A i \in FetchIdx : (CycleDone(i) /\ AllAttemptsFailed(i)) =>
            /\ Cardinality(DlqIdx(i)) = 1
            /\ Cardinality(CommitIdx(i)) = 1
            /\ \A d \in DlqIdx(i) : \A c \in CommitIdx(i) :
                   /\ events[d].ok
                   /\ d < c
                   /\ events[c].off = events[i].off
                   /\ events[d].off = events[i].off
            /\ Cardinality({ k \in 1..Len(dlqTopic) :
                   dlqTopic[k].Headers[2].Value = FormatInt(events[i].off) }) = 1

\* a finished cycle in which two attempts failed, without cancellation
C5_Witness ==
    /\ cfg.maxRetries = 2 /\ cfg.dlq /\ ~cancelled
    /\ \E i \in FetchIdx :
           /\ CycleDone(i) /\ AllAttemptsFailed(i)
           /\ Cardinality(ProcessIdx(i)) = 2
           /\ \E c \in CommitIdx(i) : events[c].ok

RECURSIVE ParseInt(_)
\* strconv.Atoi on a sequence of decimal digits
ParseInt(ds) ==
    IF Len(ds) = 0 THEN 0
    ELSE 10 * ParseInt(SubSeq(ds, 1, Len(ds) - 1))
         + ((CHOOSE d \in 1..10 : Digits[d] = ds[Len(ds)]) - 1)

Header(rec, key) ==
    LET h == CHOOSE x \in 1..Len(rec.Headers) : rec.Headers[x].Key = key
    IN rec.Headers[h].Value

DlqOkIdx == { j \in Idx : Is(j, "dlq") /\ events[j].ok }

\* the event of the successful write that produced the k-th dead-letter record
WriteOf(k) == CHOOSE j \in DlqOkIdx : Cardinality({ x \in DlqOkIdx : x <= j }) = k

\* the error that ended the processing of the message before event j of its
\* cycle: the decode error, the error of the last ProcessMessage call, or the
\* cancellation that aborted the backoff wait
EndingError(j) ==
    LET f == { x \in CycleOf(j)..(j - 1) :
                   (Is(x, "decode") \/ Is(x, "process") \/ Is(x, "wait")) /\ ~events[x].ok }
        l == CHOOSE x \in f : \A y \in f : y <= x
    IN events[l].err

C9_NoDlqMeansHandled ==
    ~cfg.dlq =>
        /\ dlqTopic = << >>
        /\ \A j \in Idx : ~Is(j, "dlq")
        /\ \A j \in Idx : Is(j, "nodlq") =>
               /\ events[j].ok
               /\ j = Len(events) => (pc = "commit" /\ msg.Offset = events[j].off)
               /\ j < Len(events) =>
                      /\ Is(j + 1, "commit")
                      /\ events[j + 1].off = events[j].off
                      /\ events[j + 1].ok \/ cancelled \/ stop.readerClosed
                      /\ events[j + 1].ok /\ j + 1 = Len(events)
                             => /\ committed = events[j].off + 1
                                /\ pc \in { "loop", "fetching", "exited" }
               /\ \A i \in FetchIdx : i > j => events[i].off > events[j].off

\* retries exhausted without a dead-letter destination, the offset committed
\* and the next message fetched
C9_Witness ==
    /\ ~cfg.dlq
    /\ cfg.maxRetries = 2
    /\ \E j \in Idx :
           /\ Is(j, "nodlq")
           /\ Cardinality(ProcessIdx(CycleOf(j))) = 2
           /\ j + 2 <= Len(events)
           /\ Is(j + 1, "commit") /\ events[j + 1].ok
           /\ Is(j + 2, "fetch")

\* ----------------------------------------------------------------- C10
\* the fetches of messages whose body is not the encoding of an Order
DecodeFailedIdx == { i \in FetchIdx : ~Decodes(events[i].off) }

\* C10 (as claimed): an undecodable message causes no ProcessMessage call and
\* no backoff wait, and is committed exactly when dead-letter forwarding
\* succeeds.
C10_CommitIffForwarded ==
    \A i \in DecodeFailedIdx :
        /\ ProcessIdx(i) = { } /\ WaitIdx(i) = { }
        /\ CommitIdx(i) # { } => \E d \in DlqIdx(i) : events[d].ok
        /\ CycleDone(i) => (CommitIdx(i) # { } <=> \E d \in DlqIdx(i) : events[d].ok)

\* C10 (amended): an undecodable message causes no ProcessMessage call and no
\* backoff wait; handleFailedMessage gets the decode error as failure reason;
\* with a dead-letter destination the message is committed exactly when the
\* dead-letter write succeeds, without one it is committed without a write.
C10_CommitIffHandled ==
    \A i \in DecodeFailedIdx :
        /\ ProcessIdx(i) = { } /\ WaitIdx(i) = { }
        /\ \A d \in DlqIdx(i) : events[d].ok =>
               Header(dlqTopic[Cardinality({ x \in DlqOkIdx : x <= d })], "x-failure-reason")
                   = Wrap("unmarshal order: ", ErrJSONSyntax)
        /\ CommitIdx(i) # { } =>
               IF cfg.dlq THEN \E d \in DlqIdx(i) : events[d].ok /\ \A c \in CommitIdx(i) : d < c
               ELSE DlqIdx(i) = { }
        /\ CycleDone(i) =>
               /\ Cardinality(CommitIdx(i)) <= 1
               /\ CommitIdx(i) = { } <=> (\E d \in DlqIdx(i) : ~events[d].ok)
        /\ (i = CycleOf(Len(events)) /\ pc = "failed") => Len(events) = i + 1

\* an undecodable message forwarded and committed, with a dead-letter
\* destination; the second conjunct is the same without one
C10_Witness ==
    \E i \in DecodeFailedIdx :
        /\ CycleDone(i)
        /\ CommitIdx(i) # { }
        /\ cfg.dlq => \E d \in DlqIdx(i) : events[d].ok
        /\ ~cfg.dlq => \E j \in InCycle(i) : Is(j, "nodlq")

\* ----------------------------------------------------------------- C11
\* C11: when the cancellation signal is raised while the retry loop waits in
\* backoff, no further ProcessMessage attempt is made for that message, and
\* the retry loop ends with the cancellation error, which is not the last
\* processing error.
C11_CancelInBackoffAborts ==
    cancelAt.pc = "backoff" =>
        LET n == cancelAt.n IN
        /\ Is(n, "process") /\ ~events[n].ok
        /\ \A j \in Idx : (j > n /\ Is(j, "process")) => CycleOf(j) # CycleOf(n)
        /\ Len(events) = n => pc = "backoff"
        /\ Len(events) > n =>
               /\ Is(n + 1, "wait") /\ ~events[n + 1].ok
               /\ events[n + 1].err = ErrCtxCanceled
               /\ ~Contains(events[n + 1].err, events[n].err)
        /\ Len(events) = n + 1 => (processingErr = ErrCtxCanceled /\ pc = "failed")

\* the context was cancelled during a backoff wait, the wait was aborted and
\* the loop went on to handle the message as failed
C11_Witness ==
    /\ cancelAt.pc = "backoff"
    /\ Len(events) >= cancelAt.n + 2
    /\ attempt < cfg.maxRetries

\* ----------------------------------------------------------------- C12
\* C12 (as claimed): once the cancellation signal is raised the consume loop
\* eventually exits, from whatever state it is in, and a Stop that waits
\* then returns.
C12_CancelLeadsToExit ==
    /\ cancelled ~> (pc = "exited")
    /\ (cancelled /\ stop.pc = "waiting") ~> (stop.pc = "returned")

\* ----------------------------------------------------------------- C13
\* C13 (as claimed): after Stop has been called the consumer starts no new
\* fetch cycle, and after Stop has returned the loop performs no further
\* fetch, process, dead-letter or commit action.
C13_NoFetchAfterStop ==
    [][ /\ stop.pc # "idle" => ~(pc = "loop" /\ pc' = "fetching")
        /\ stop.pc = "returned" => events' = events ]_vars

\* ----------------------------------------------------------------- C14
\* C14 (as claimed): Stop, called with a context that never expires while
\* the context passed to Start is not cancelled, returns and reports no
\* error (a run that the MaxRetries = 0 panic ended is left aside).
C14_StopReturns ==
    (stop.pc = "waiting" /\ stop.ctx = "never" /\ ~cancelled)
        ~> ((stop.pc = "returned" /\ stop.err = NoErr) \/ pc = "panicked")

C16_DelayAtMostMax == \A k \in 1..Len(bk.delays) : bk.delays[k] <= bk.max

\* C16 (amended): when InitialRetryDelay > 0, BackoffFactor > 1 and
\* MaxRetryDelay > 0 the delay for every attempt >= 1 and every jitter
\* outcome is at most MaxRetryDelay; in every other configuration the delay
\* is InitialRetryDelay, whatever MaxRetryDelay is.
C16_DelayAtMostMaxOrFallback ==
    \A k \in 1..Len(bk.delays) :
        IF bk.initial > 0 /\ bk.factor.num > bk.factor.den /\ bk.max > 0
        THEN bk.delays[k] <= bk.max
        ELSE bk.delays[k] = bk.initial

\* a growing configuration whose delay for the last attempt was cut to
\* MaxRetryDelay
C16_Witness ==
    /\ bk.initial > 0 /\ bk.factor.num > bk.factor.den /\ bk.max > 0
    /\ Len(bk.delays) >= 2
    /\ backoffOf(bk, Len(bk.delays)) > bk.max
    /\ backoffOf(bk, Len(bk.delays)) <= MaxDuration
    /\ bk.delays[Len(bk.delays)] = bk.max

\* ----------------------------------------------------------------- C17
\* C17 (as claimed): for every configuration and every jitter outcome the
\* delays for attempts 1, 2, 3, ... are non-decreasing.
C17_DelaysNonDecreasing ==
    \A k \in 1..(Len(bk.delays) - 1) : bk.delays[k] <= bk.delays[k + 1]

\* ----------------------------------------------------------------- C18
\* C18 (as claimed): when InitialRetryDelay > 0, BackoffFactor > 1 and
\* MaxRetryDelay > 0, the delay before retry k lies in [base, base + base/10)
\* with base = min(MaxRetryDelay, InitialRetryDelay * BackoffFactor^(k-1)),
\* and equals base when base/10 is 0.
C18_DelayWithinJitterOfBase ==
    (bk.initial > 0 /\ bk.factor.num > bk.factor.den /\ bk.max > 0) =>
        \A k \in 1..Len(bk.delays) :
            LET b == backoffOf(bk, k)
                base == IF b > bk.max THEN bk.max ELSE b
            IN  /\ base <= bk.delays[k]
                /\ IF base \div 10 = 0 THEN bk.delays[k] = base
                   ELSE bk.delays[k] < base + (base \div 10)

\* ----------------------------------------------------------------- C19
\* C19 (as claimed): for every valid order o, after ProcessMessage(o) has
\* succeeded, a GetByID(o.OrderUID) that returns an order returns one equal
\* to o, whether it was read from the cache or from the repository.
C19_RoundTrip ==
    (svc.pc = "stored" /\ svc.last.called /\ svc.last.uid = svc.o.OrderUID
        /\ svc.last.err = NoErr)
        => svc.last.order = svc.o

\* ----------------------------------------------------------------- C20
\* C20: GetByID on a cache hit returns the cached order, without error, and
\* never calls the repository.
C20_CacheHitSkipsRepository ==
    (svc.pc # "idle" /\ svc.last.called /\ svc.last.hit) =>
        /\ svc.last.repoCalls = 0
        /\ svc.last.err = NoErr
        /\ svc.last.order = unmarshalOrder(svc.last.cached)

\* a read of a stored order was served from the cache while the repository
\* had the order too
C20_Witness ==
    /\ svc.pc = "stored"
    /\ svc.last.called /\ svc.last.hit /\ svc.last.uid = svc.o.OrderUID
    /\ \E row \in svc.rows : row.order_uid = svc.last.uid
    /\ svc.last.order.OrderUID = svc.last.uid

\* ----------------------------------------------------------------- C21
\* C21: GetByID for an id that is in neither the cache nor the repository
\* fails with an error that wraps the repository's error, returns no order
\* and writes nothing to the cache.  (The table is not written between the
\* call and the state the formula looks at: reads follow ProcessMessage.)
C21_AbsentIsNotFound ==
    (/\ svc.pc # "idle" /\ svc.last.called
     /\ ~\E e \in svc.last.kvBefore : e.key = << "order:", svc.last.uid >>
     /\ ~\E row \in svc.rows : row.order_uid = svc.last.uid)
        => /\ svc.last.err # NoErr
           /\ svc.last.repoCalls = 1
           /\ svc.last.repoErr # NoErr
           /\ Contains(svc.last.err, svc.last.repoErr)
           /\ svc.last.order = NilOrder
           /\ svc.last.setCalls = 0
           /\ svc.last.kv = svc.last.kvBefore

\* an id stored nowhere was read while the cache held another order, and the
\* repository answered that it has no such order
C21_Witness ==
    /\ svc.pc # "idle" /\ svc.last.called /\ svc.last.uid = "other"
    /\ svc.last.kvBefore # {}
    /\ svc.last.repoErr = << "order with uid ", "other", " not found" >>
    /\ svc.last.err # NoErr

\* ----------------------------------------------------------------- C22
\* C22: GetByID on a cache miss for an id the repository returns gives back
\* the repository's order without error and calls Cache.Set once for it; when
\* that write goes through the cache holds the order under the same id, and
\* when it fails the read still succeeds.
C22_MissPopulatesCache ==
    (/\ svc.pc # "idle" /\ svc.last.called /\ ~svc.last.hit
     /\ svc.last.repoCalls = 1 /\ svc.last.repoErr = NoErr)
        => /\ svc.last.err = NoErr
           /\ \E row \in svc.rows :
                 /\ row.order_uid = svc.last.uid
                 /\ svc.last.order = toDomainOrder(row, svc.last.uid)
           /\ svc.last.setCalls = 1
           /\ IF svc.last.setOk
              THEN /\ [key |-> << "order:", svc.last.uid >>,
                       value |-> marshalOrder(svc.last.order)] \in svc.last.kv
                   /\ \A e \in svc.last.kv :
                         e.key = << "order:", svc.last.uid >>
                             => e.value = marshalOrder(svc.last.order)
              ELSE svc.last.kv = svc.last.kvBefore

\* a stored order was read past an empty cache, the cache write failed and
\* the read returned the order all the same
C22_Witness ==
    /\ svc.pc = "stored" /\ svc.last.called /\ ~svc.last.hit
    /\ svc.last.uid = svc.o.OrderUID
    /\ svc.last.repoErr = NoErr /\ svc.last.setCalls = 1 /\ ~svc.last.setOk
    /\ svc.last.err = NoErr /\ svc.last.order # NilOrder

\* ----------------------------------------------------------------- C23
\* C23: ProcessMessage on an order Validate rejects (an empty OrderUID, or a
\* payment amount that is not the sum of its parts) returns an error carrying
\* the first violation, calls neither Repository.Create nor Cache.Set, and
\* leaves the repository and the cache as they were.
C23_InvalidHasNoEffect ==
    (/\ svc.pc \in { "stored", "failed" }
     /\ (svc.o.OrderUID = "" \/ ~svc.o.valid))
        => /\ svc.pc = "failed"
           /\ svc.err # NoErr
           /\ Contains(svc.err,
                       IF svc.o.OrderUID = ""
                       THEN << "order_uid: ", "required field" >>
                       ELSE << "payment.amount: ",
                               "amount must equal goods_total + delivery_cost + custom_fee" >>)
           /\ svc.proc.creates = 0
           /\ svc.proc.sets = 0
           /\ svc.proc.rows = svc.proc.rowsBefore
           /\ svc.proc.kv = svc.proc.kvBefore

\* an order with a wrong payment amount was rejected while the repository and
\* the cache held an earlier order
C23_Witness ==
    /\ svc.pc = "failed"
    /\ svc.o.OrderUID # "" /\ ~svc.o.valid
    /\ svc.proc.rowsBefore # {} /\ svc.proc.kvBefore # {}
    /\ svc.proc.creates = 0

\* ----------------------------------------------------------------- C24
\* C24: when Repository.Create fails, ProcessMessage returns an error that
\* wraps the repository's error and does not write the order to the cache.
C24_CreateFailureSkipsCache ==
    (/\ svc.pc \in { "stored", "failed" }
     /\ svc.proc.creates = 1 /\ svc.proc.createErr # NoErr)
        => /\ svc.pc = "failed"
           /\ svc.err # NoErr
           /\ Contains(svc.err, svc.proc.createErr)
           /\ svc.proc.sets = 0
           /\ svc.proc.kv = svc.proc.kvBefore
           /\ svc.proc.rows = svc.proc.rowsBefore

\* Create failed after it had stamped the order
C24_Witness ==
    /\ svc.pc = "failed"
    /\ svc.proc.creates = 1
    /\ svc.proc.createErr = << "failed to create order: ", "db unavailable" >>
    /\ svc.o.CreatedAt \in Clock

\* ----------------------------------------------------------------- C25
\* C25 (as claimed): in every reachable state every order held in the cache
\* is present in the repository with the same content.
C25_CacheWithinRepository ==
    svc.pc # "idle" =>
        \A e \in { x \in svc.kv : x.value # CorruptValue } :
            \E row \in svc.rows :
                /\ e.key = << "order:", row.order_uid >>
                /\ unmarshalOrder(e.value) = toDomainOrder(row, row.order_uid)

\* ----------------------------------------------------------------- C27
\* C27: RestoreCache hands the cache bulk load a map that holds every order
\* GetAll returned under its OrderUID; when GetAll fails RestoreCache returns
\* an error wrapping that failure and the bulk load is not called.
C27_RestoreLoadsAll ==
    (svc.pc # "idle" /\ svc.restore.called) =>
        IF svc.restore.repoErr = NoErr
        THEN /\ svc.restore.err = NoErr
             /\ svc.restore.loads = 1
             /\ \A o \in svc.restore.got :
                   /\ o.OrderUID \in DOMAIN svc.restore.loaded
                   /\ svc.restore.loaded[o.OrderUID] = o
             /\ \A u \in DOMAIN svc.restore.loaded :
                   svc.restore.loaded[u] \in svc.restore.got
        ELSE /\ svc.restore.err # NoErr
             /\ Contains(svc.restore.err, svc.restore.repoErr)
             /\ svc.restore.loads = 0
             /\ svc.restore.kv = svc.restore.kvBefore

\* RestoreCache ran over a repository holding two orders and loaded both
C27_Witness ==
    /\ svc.pc = "stored" /\ svc.restore.called /\ svc.restore.err = NoErr
    /\ \E a, b \in svc.restore.got : a.OrderUID # b.OrderUID
    /\ \E e \in svc.restore.kv : e.key = << "order:", "a111" >>
    /\ \E e \in svc.restore.kv : e.key = << "order:", "b563" >>

\* ----------------------------------------------------------------- C26
\* C26 (as claimed): reprocessing a message whose order was already
\* persisted is tolerated: once ProcessMessage has succeeded for an OrderUID,
\* no later ProcessMessage call for a message carrying that OrderUID fails
\* because the key is taken.
C26_DuplicateTolerated ==
    \A i, j \in Idx :
        (/\ i < j
         /\ Is(i, "process") /\ events[i].ok
         /\ Is(j, "process")
         /\ Unmarshal(MsgOfOffset(events[j].off).Value).order.OrderUID
                = Unmarshal(MsgOfOffset(events[i].off).Value).order.OrderUID)
            => ~Contains(events[j].err, ErrDuplicateKey)

\* ----------------------------------------------------------------- C28
\* C28: a failing RestoreCache does not end App.Run: the consumer is started
\* next and then the HTTP server, Run returns only once ListenAndServe has
\* been called, and a read of a stored order past the cold cache is answered
\* from the repository.
C28_RestoreFailureNotFatal ==
    (app.pc \notin { "idle", "init" } /\ app.restoreErr # NoErr) =>
        /\ app.steps = SubSeq(<< "restore", "consumer", "server" >>, 1, Len(app.steps))
        /\ app.pc \in { "serving", "exited" }
               => app.steps = << "restore", "consumer", "server" >>
        /\ (/\ app.http.called /\ app.http.svcCalls = 1
            /\ app.http.out.kvBefore = {}
            /\ app.http.out.repoErr = NoErr)
               => /\ app.http.out.repoCalls = 1
                  /\ app.http.status = 200
                  /\ \E row \in app.rows :
                        app.http.body = marshalOrder(toDomainOrder(row, app.http.uid))

\* the restore failed, the server came up all the same and answered a read
\* of a stored order from the repository, the cache being empty
C28_Witness ==
    /\ app.pc = "serving" /\ app.restoreErr # NoErr
    /\ app.http.called /\ app.http.uid = "a111" /\ app.http.status = 200
    /\ app.http.out.kvBefore = {} /\ app.http.out.repoCalls = 1

\* ----------------------------------------------------------------- C29
\* C29: App.Health returns no error exactly when the database ping, the
\* cache ping and the consumer check all succeed; otherwise it returns the
\* error of the first failing check in the order database, cache, consumer
\* and runs no later check; /healthz answers 200 on no error and 503 otherwise.
C29_HealthFirstFailure ==
    (app.pc # "idle" /\ app.health.called) =>
        LET h == app.health
        IN  /\ h.err = NoErr
                <=> (h.db = NoErr /\ h.redis = NoErr /\ h.consumer = NoErr)
            /\ h.db # NoErr => (h.err = h.db /\ h.ran = << "db" >>)
            /\ (h.db = NoErr /\ h.redis # NoErr)
                   => (h.err = h.redis /\ h.ran = << "db", "redis" >>)
            /\ (h.db = NoErr /\ h.redis = NoErr)
                   => (h.err = h.consumer /\ h.ran = << "db", "redis", "consumer" >>)
            /\ h.status = IF h.err = NoErr THEN 200 ELSE 503

\* the database answered while the cache and the consumer were both down:
\* the cache's error was returned and the consumer was not asked
C29_Witness ==
    /\ app.pc = "serving" /\ app.health.called
    /\ app.health.db = NoErr /\ app.health.redis # NoErr /\ app.health.consumer # NoErr
    /\ app.health.err = app.health.redis
    /\ app.health.status = 503

\* ----------------------------------------------------------------- C30
\* C30 (as claimed): GET /order/{order_uid} answers 400 without calling the
\* service for an empty id, 200 with the JSON order when the service returns
\* one, and 404 exactly when the order is in neither the cache nor the
\* repository.
C30_OrderEndpoint ==
    (app.pc # "idle" /\ app.http.called) =>
        LET q == app.http
        IN  /\ q.uid = "" => (q.status = 400 /\ q.svcCalls = 0)
            /\ (q.uid # "" /\ q.out.err = NoErr)
                   => (q.status = 200 /\ q.body = marshalOrder(q.out.order))
            /\ q.status = 404
                <=> /\ q.uid # ""
                    /\ ~\E e \in q.out.kvBefore : e.key = << "order:", q.uid >>
                    /\ ~\E row \in app.rows : row.order_uid = q.uid

\* ------------------------------------------- what the data model requires
NonBlank(str) == str # "" /\ str # " "

HeaderOK(o) ==
    /\ o.OrderUID # "" /\ o.TrackNumber # "" /\ o.Entry # ""
    /\ o.Locale # "" /\ o.CustomerID # ""

DeliveryOK(d) ==
    NonBlank(d.Name) /\ NonBlank(d.Phone) /\ NonBlank(d.City) /\ NonBlank(d.Address)

\* the payment invariants as the data model lists them
PaymentListedOK(p) ==
    /\ NonBlank(p.Transaction) /\ NonBlank(p.Currency) /\ NonBlank(p.Provider)
    /\ p.Amount >= 0 /\ p.DeliveryCost >= 0 /\ p.GoodsTotal >= 0 /\ p.CustomFee >= 0
    /\ p.Amount = p.GoodsTotal + p.DeliveryCost + p.CustomFee

\* the item invariants as the data model lists them
ItemListedOK(i) ==
    /\ i.ChrtID > 0
    /\ i.TrackNumber # "" /\ i.Name # "" /\ i.Size # "" /\ i.Brand # ""
    /\ i.Price >= 0 /\ i.Sale >= 0 /\ i.TotalPrice >= 0 /\ i.Status >= 0

HasError(errs, field) == \E k \in DOMAIN errs : errs[k].Field = field

\* ----------------------------------------------------------------- C31
\* C31 (as claimed): for every order whose payment Amount differs from
\* GoodsTotal + DeliveryCost + CustomFee, Validate reports an error on field
\* payment.amount (on field amount when Payment.Validate is called directly).
C31_MismatchReported ==
    /\ (val.pc = "done" /\ val.kind = "payment"
           /\ val.in.Amount # val.in.GoodsTotal + val.in.DeliveryCost + val.in.CustomFee)
           => HasError(val.errors, << "amount" >>)
    /\ (val.pc = "done" /\ val.kind = "order"
           /\ val.in.Payment.Amount # val.in.Payment.GoodsTotal
                  + val.in.Payment.DeliveryCost + val.in.Payment.CustomFee)
           => HasError(val.errors, << "payment", "amount" >>)

\* ----------------------------------------------------------------- C32
\* C32: for every order with zero items Validate reports an error on field
\* items, and when the order violates nothing else that error is the first
\* (and only) one reported.
C32_NoItemsReported ==
    (val.pc = "done" /\ val.kind = "order" /\ Len(val.in.Items) = 0) =>
        /\ HasError(val.errors, << "items" >>)
        /\ (/\ HeaderOK(val.in) /\ DeliveryOK(val.in.Delivery)
            /\ PaymentListedOK(val.in.Payment) /\ val.in.Payment.PaymentDt > 0)
               => /\ Len(val.errors) = 1
                  /\ val.errors[1].Field = << "items" >>

\* an order without items and with nothing else wrong was validated
C32_Witness ==
    /\ val.pc = "done" /\ val.kind = "order" /\ val.in.Items = << >>
    /\ HeaderOK(val.in) /\ DeliveryOK(val.in.Delivery)
    /\ PaymentListedOK(val.in.Payment) /\ val.in.Payment.PaymentDt > 0
    /\ val.in.Payment.Amount > 0
    /\ val.errors # << >>

\* ----------------------------------------------------------------- C33
\* C33 (as claimed): Validate reports no error for every order that
\* satisfies the invariants the data model lists.
C33_AcceptsListedInvariants ==
    (/\ val.pc = "done" /\ val.kind = "order"
     /\ HeaderOK(val.in)
     /\ Len(val.in.Items) >= 1
     /\ \A k \in DOMAIN val.in.Items : ItemListedOK(val.in.Items[k])
     /\ DeliveryOK(val.in.Delivery)
     /\ PaymentListedOK(val.in.Payment))
        => val.errors = << >>

\* C33 (amended): Validate reports no error for every order that satisfies
\* the listed invariants and, in addition, has a positive payment_dt and
\* items whose rid, track number, name, size and brand are not blank and
\* whose nm_id is positive.
C33_AcceptsAllValid ==
    (/\ val.pc = "done" /\ val.kind = "order"
     /\ HeaderOK(val.in)
     /\ Len(val.in.Items) >= 1
     /\ \A k \in DOMAIN val.in.Items :
           /\ ItemListedOK(val.in.Items[k])
           /\ NonBlank(val.in.Items[k].TrackNumber) /\ NonBlank(val.in.Items[k].Name)
           /\ NonBlank(val.in.Items[k].Size) /\ NonBlank(val.in.Items[k].Brand)
           /\ NonBlank(val.in.Items[k].Rid)
           /\ val.in.Items[k].NmID > 0
     /\ DeliveryOK(val.in.Delivery)
     /\ PaymentListedOK(val.in.Payment)
     /\ val.in.Payment.PaymentDt > 0)
        => val.errors = << >>

\* an order that meets every requirement, with a custom fee in its amount,
\* was validated and accepted
C33_Witness ==
    /\ val.pc = "done" /\ val.kind = "order"
    /\ HeaderOK(val.in) /\ val.in.Items = << validItem >>
    /\ DeliveryOK(val.in.Delivery)
    /\ PaymentListedOK(val.in.Payment) /\ val.in.Payment.PaymentDt > 0
    /\ val.in.Payment.CustomFee > 0
    /\ val.errors = << >>

\* ----------------------------------------------------------------- C34
\* the message of the cycle opened by fetch i decodes to an order that
\* Validate rejects
InvalidOrderCycle(i) ==
    /\ Decodes(events[i].off)
    /\ ~Validate(Unmarshal(MsgOfOffset(events[i].off).Value).order)

\* C34 (as claimed): a message whose order fails validation is retried like
\* a transient failure (dead-letter destination configured, no
\* cancellation): every ProcessMessage call for it fails with the validation
\* error, each failed call but the MaxRetries-th is followed by a backoff wait
\* and another call, the retry loop ends in the failure handler after
\* MaxRetries calls, and the message is written to the dead-letter
\* destination at most once, after those MaxRetries calls.
C34_ValidationRetriedThenForwarded ==
    (cfg.dlq /\ ~cancelled) =>
        \A i \in FetchIdx : InvalidOrderCycle(i) =>
            /\ \A j \in ProcessIdx(i) :
                  /\ ~events[j].ok
                  /\ Contains(events[j].err, << "order_uid: ", "required field" >>)
                  /\ LET n == Cardinality({ k \in ProcessIdx(i) : k <= j })
                     IN  IF n < cfg.maxRetries
                         THEN /\ j = Len(events) => pc = "backoff"
                              /\ j < Len(events) => (Is(j + 1, "wait") /\ events[j + 1].ok)
                              /\ j + 1 = Len(events) => pc = "attempt"
                              /\ j + 1 < Len(events) => Is(j + 2, "process")
                         ELSE /\ n = cfg.maxRetries
                              /\ j = Len(events) => pc = "failed"
                              /\ j < Len(events) => Is(j + 1, "dlq")
            /\ i = Len(events) => pc = "attempt"
            /\ i < Len(events) => Is(i + 1, "process")
            /\ Cardinality(DlqIdx(i)) <= 1
            /\ \A d \in DlqIdx(i) :
                  /\ Cardinality({ k \in ProcessIdx(i) : k < d }) = cfg.maxRetries
                  /\ Cardinality({ k \in WaitIdx(i) : k < d }) = cfg.maxRetries - 1

\* ----------------------------------------------------------------- C35
\* C35: a fetch that fails while no cancellation is raised has no side
\* effect (no ProcessMessage call, no dead-letter write, no commit, nothing
\* read from the partition) and brings the loop back to its top, from where
\* the next step of the loop is the next fetch, with no wait in between.
C35_FailedFetchNoEffect ==
    [][ /\ (pc = "fetching" /\ ~cancelled /\ pc' # "fetching" /\ position' = position)
            => /\ pc' = "loop"
               /\ UNCHANGED << events, dlqTopic, committed, repo, cache, msg >>
        /\ (pc = "loop" /\ ~cancelled /\ pc' # "loop")
            => /\ pc' = "fetching"
               /\ UNCHANGED << events, dlqTopic, committed, repo, cache >> ]_vars

\* a fetch failed without cancellation after a message had been handled, and
\* the loop is fetching again
C35_Witness ==
    /\ fetchErrs >= 1 /\ ~cancelled /\ pc = "fetching"
    /\ events # << >>

\* ----------------------------------------------------------------- C36
\* C36: persistence is atomic: the tables hold either every part of an order
\* or none of it, a Create that failed at any step left the tables as they
\* were, and a GetByUID that returns an order returns it with its delivery,
\* payment and items, whatever a concurrent Create is doing.
C36_CreateIsAtomic ==
    db.pc = "ready" =>
        /\ \A uid \in { "b563", "a111" } :
              partsOf(db.tables, uid) \in { {}, { "order", "delivery", "payment", "items" } }
        /\ (db.lastCreate.called /\ db.lastCreate.failed)
               => db.lastCreate.after = db.lastCreate.before
        /\ (db.lastQuery.called /\ db.lastQuery.found)
               => (db.lastQuery.delivery /\ db.lastQuery.payment /\ db.lastQuery.items)

\* a Create failed after it had written three parts, while a GetByUID for a
\* stored order was between its two queries
C36_Witness ==
    /\ db.pc = "ready"
    /\ db.lastCreate.called /\ db.lastCreate.failed /\ db.lastCreate.steps = 3
    /\ db.rd.pc = "items"
    /\ db.tables # {}

\* ----------------------------------------------------------------- C37
\* the call read a cache entry whose value does not decode
CorruptRead(c) == c.called /\ c.cached = CorruptValue

\* C37 (as claimed): a cache entry whose value cannot be decoded is reported
\* by Cache.Get as a miss; GetByID then asks the repository, returns the
\* repository's order and overwrites the corrupt entry, and the next GetByID
\* for that id is a cache hit.
C37_CorruptOverwritten ==
    [][svc'.pc # "idle" =>
        /\ CorruptRead(svc'.last) =>
              /\ ~svc'.last.hit
              /\ svc'.last.repoCalls = 1
              /\ svc'.last.err = NoErr
              /\ \E row \in svc'.rows :
                    /\ row.order_uid = svc'.last.uid
                    /\ svc'.last.order = toDomainOrder(row, svc'.last.uid)
              /\ [key |-> << "order:", svc'.last.uid >>,
                  value |-> marshalOrder(svc'.last.order)] \in svc'.last.kv
        /\ (/\ svc'.reads = svc.reads + 1
            /\ CorruptRead(svc.last)
            /\ svc'.last.uid = svc.last.uid) => svc'.last.hit]_vars

\* C37 (amended): a cache entry whose value cannot be decoded is reported by
\* Cache.Get as a miss, and GetByID then asks the repository once.  When the
\* repository fails or has no such order GetByID returns that error and the
\* entry stays; when it returns the order GetByID returns it and calls
\* Cache.Set once, and the corrupt entry is replaced by the encoded order when
\* that write goes through and stays when it does not.  After a write that
\* went through, and for as long as the entry is kept, a following GetByID for
\* the id never finds an undecodable value again: it either is a cache hit
\* that returns that same order without a repository call, or could not
\* reach the cache.
C37_CorruptIsMiss ==
    [][svc'.pc # "idle" =>
        /\ CorruptRead(svc'.last) =>
              /\ ~svc'.last.hit
              /\ svc'.last.repoCalls = 1
              /\ IF svc'.last.repoErr = NoErr
                 THEN /\ svc'.last.err = NoErr
                      /\ \E row \in svc'.rows :
                            /\ row.order_uid = svc'.last.uid
                            /\ svc'.last.order = toDomainOrder(row, svc'.last.uid)
                      /\ svc'.last.setCalls = 1
                      /\ svc'.last.kv =
                            IF svc'.last.setOk
                            THEN { e \in svc'.last.kvBefore :
                                      e.key # << "order:", svc'.last.uid >> }
                                 \cup { [key |-> << "order:", svc'.last.uid >>,
                                         value |-> marshalOrder(svc'.last.order)] }
                            ELSE svc'.last.kvBefore
                 ELSE /\ svc'.last.err # NoErr
                      /\ Contains(svc'.last.err, svc'.last.repoErr)
                      /\ svc'.last.order = NilOrder
                      /\ svc'.last.setCalls = 0
                      /\ svc'.last.kv = svc'.last.kvBefore
        /\ (/\ svc'.reads = svc.reads + 1
            /\ CorruptRead(svc.last) /\ svc.last.setOk
            /\ svc.kv = svc.last.kv
            /\ svc'.last.uid = svc.last.uid) =>
              /\ svc'.last.cached # CorruptValue
              /\ IF svc'.last.hit
                 THEN /\ svc'.last.order = svc.last.order
                      /\ svc'.last.repoCalls = 0
                      /\ svc'.last.err = NoErr
                 ELSE svc'.last.cached = NilOrder]_vars

\* an undecodable entry was read as a miss, the repository returned the order
\* and the entry was replaced by the encoded order; the read after it for the
\* same id was a cache hit
C37_Witness ==
    /\ svc.pc # "idle"
    /\ CorruptRead(svc.prev) /\ ~svc.prev.hit
    /\ svc.prev.repoErr = NoErr /\ svc.prev.setOk
    /\ svc.prev.order # NilOrder
    /\ [key |-> << "order:", svc.prev.uid >>, value |-> CorruptValue]
           \in svc.prev.kvBefore
    /\ [key |-> << "order:", svc.prev.uid >>,
        value |-> marshalOrder(svc.prev.order)] \in svc.prev.kv
    /\ svc.last.uid = svc.prev.uid
    /\ svc.last.hit /\ svc.last.order = svc.prev.order

\* ----------------------------------------------------------------- C38
\* C38 (as claimed): a message whose retry loop was aborted by cancellation
\* is left unresolved: no dead-letter record is written for it and its offset
\* is not committed, with or without a dead-letter destination.
C38_AbortedLeftUnresolved ==
    \A i \in FetchIdx :
        (\E w \in WaitIdx(i) : ~events[w].ok) =>
            /\ \A k \in 1..Len(dlqTopic) :
                  dlqTopic[k].Headers[2].Value # FormatInt(events[i].off)
            /\ \A c \in CommitIdx(i) : ~events[c].ok
            /\ committed <= events[i].off

\* ----------------------------------------------------------------- C39
\* ProcessMessage succeeded for the record at offset off, or a dead-letter
\* write for it succeeded
Handled(off) == \E j \in Idx : events[j].off = off /\ Resolves(j)

\* every failed dead-letter write was followed by one that succeeded
DlqWritesRecovered ==
    \A d \in Idx : (Is(d, "dlq") /\ ~events[d].ok)
        => \E e \in Idx : e > d /\ Is(e, "dlq") /\ events[e].ok

\* C39 (as claimed, in finite-run form): no record is lost: with no
\* cancellation and no Stop, MaxRetries >= 1 and a dead-letter destination
\* whose writes succeed again after every failure, once the loop has fetched
\* the whole log and is back at its top every record of the log has been
\* persisted by a successful ProcessMessage or written to the dead-letter
\* destination.
C39_NoRecordLost ==
    (/\ cfg.maxRetries >= 1 /\ cfg.dlq
     /\ ~cancelled /\ stop = StopIdle
     /\ DlqWritesRecovered
     /\ position > Len(log) /\ pc \in { "loop", "fetching" })
        => \A k \in 1..Len(log) : Handled(MessageAt(log, k).Offset)

\* ----------------------------------------------------------------- C40
\* C40 (as claimed): with all monetary fields non-negative, a payment passes
\* validation only when its Amount equals the mathematical sum
\* GoodsTotal + DeliveryCost + CustomFee.
C40_NoOverflowAccepted ==
    (/\ val.pc = "done" /\ val.kind = "payment"
     /\ val.in.Amount >= 0 /\ val.in.GoodsTotal >= 0
     /\ val.in.DeliveryCost >= 0 /\ val.in.CustomFee >= 0
     /\ val.errors = << >>)
        => val.in.Amount = val.in.GoodsTotal + val.in.DeliveryCost + val.in.CustomFee

====
